---------------------------- MODULE Spec2Model ----------------------------
(***************************************************************************)
(* Model of the live-interaction core of wordAIGame:                       *)
(*   - VoteManager          (src/danmaku_listener.py)                      *)
(*   - GiftProcessor        (src/gift_system.py)                           *)
(*   - Leaderboard          (src/leaderboard.py)                           *)
(*   - the parts of LiveGame (src/live_game.py) that drive them            *)
(*                                                                         *)
(* Conventions                                                             *)
(*   - Python None is modelled by 0 (option keys, callbacks) or NoTime.    *)
(*   - Option keys are the strings "1", "2", ... in the code; the model    *)
(*     keeps the integer and converts with Str where the text matters.     *)
(*   - A chat text is a sequence of character tokens; the CJK characters   *)
(*     of the patterns are named tokens: "xuan", "ze", "hao"; "sp" is a    *)
(*     blank and "x" any other character.                                  *)
(*   - Money is counted in fen (hundredths of a yuan), so that the tier    *)
(*     table's 0.1 is the integer 10 and a gift of 0.05 is the integer 5.  *)
(*   - A user's display name is not modelled; where the code stores the    *)
(*     username the model stores the user_id.                              *)
(***************************************************************************)
EXTENDS Integers, Sequences, FiniteSets, TLC

VARIABLES
    \* ---- VoteManager fields
    votes,            \* self.votes: sequence over option keys of sets of user_id
    voting_active,    \* self.voting_active
    vote_start_time,  \* self.vote_start_time (NoTime = None)
    vote_callback,    \* self.vote_callback: id of the registered callback, 0 = None
    \* ---- environment of the VoteManager
    timers,           \* the _vote_timer threads alive: [id, due, pc]
    now,              \* time.time(), in ticks
    sessions,         \* number of start_vote calls made so far
    fired,            \* how often self.vote_callback has been invoked so far
    lastOp,           \* the VoteManager call that returned last
    lastRet,          \* what it returned (an option key, 0 = None)
    listeners,        \* per listener thread: position inside process_danmaku
    \* ---- GiftProcessor fields
    donor_stats,      \* self.donor_stats: the DonorStats in dict insertion order
    records,          \* self.records
    pending_effects,  \* self.pending_effects
    pending_rename,   \* self.pending_rename (NoRename = None)
    \* ---- environment of the GiftProcessor
    saved,            \* what the save file holds
    effectCalls,      \* number of effect callback invocations so far
    giftsDone,        \* number of process_gift calls so far
    lastGift,         \* the gift of the last process_gift call
    enqCount,         \* number of effects appended to pending_effects so far
    loop,             \* the game loop's position in "fetch and apply effects"
    applied,          \* the effects applied to the player, in order
    \* ---- Leaderboard fields
    leaderboard,      \* [boards, game_stats, history] of the Leaderboard object
    \* ---- environment of the Leaderboard
    lbFile,           \* what the leaderboard's save file holds
    historyCalls,     \* number of add_history_event calls so far
    boardOps,         \* number of other mutating Leaderboard calls so far
    partLog,          \* the update_vote_participation calls since the last reset
    \* ---- LiveGame fields
    player_name,      \* self.player.name; <<>> while self.player is None
    \* ---- environment of the LiveGame
    held,             \* per (platform, user_id): the option its last recorded
                      \* vote of the session went to, 0 = none
    grantee,          \* the (platform, user_id) whose gift set pending_rename
    lastRename,       \* the last renaming: who sent the command, who held the grant
    \* ---- environment of the storing operations
    raised,           \* the last storing operation raised to its caller
    \* ---- DouyinDanmakuListener fields
    running,          \* self.running
    danmaku_callbacks,\* self.danmaku_callbacks: the callbacks in registration order
    gift_callbacks,   \* self.gift_callbacks
    \* ---- environment of the listener
    worker,           \* where the listener's thread stands in _run_async / _listen
    stopping,         \* stop() has handed self._loop.stop to the event loop
    observed,         \* a loop test of _listen has read self.running as False
    sentLog,          \* the payloads the server has sent so far
    wire,             \* the payloads waiting on the open connection, by number
    emitted,          \* the payloads handed to _emit_danmaku / _emit_gift
    delivered,        \* the callback invocations made so far: [cb, ev]
    attempts,         \* calls of websockets.connect so far
    failures,         \* failed connection attempts in a row
    backoffs,         \* backoff waits begun since the last open connection
    \* ---- Player fields
    player,           \* self.player: realm, progress, attributes, hp and mp;
                      \* NoPlayer = None.  The runs of the GiftProcessor alone
                      \* keep in "applied" what reaches the player instead
    \* ---- environment of apply_effects_to_player
    messages,         \* what the last apply_effects_to_player call returned
    lastEffects,      \* the effects list of that call
    applyCalls,       \* number of apply_effects_to_player calls so far
    \* ---- the thread inside end_vote
    closer,           \* where it stands, the counts and the winner it has
                      \* computed, and the ballots its callback has read
    \* ---- LiveGame fields of the story turns
    vote_result,      \* self.vote_result: the winner's key, 0 = None
    \* ---- environment of process_vote_result
    turns             \* the story turns process_vote_result has generated:
                      \* [session, choice_idx]

voteVars == <<votes, voting_active, vote_start_time, vote_callback, timers, now,
              sessions, fired, lastOp, lastRet, listeners>>

giftVars == <<donor_stats, records, pending_effects, pending_rename, saved,
              effectCalls, giftsDone, lastGift, enqCount, loop, applied>>

boardVars == <<leaderboard, lbFile, historyCalls, boardOps, partLog>>

liveVars == <<player_name, held, grantee, lastRename>>

diskVars == <<raised>>

listenVars == <<running, danmaku_callbacks, gift_callbacks, worker, stopping,
                observed, sentLog, wire, emitted, delivered, attempts, failures,
                backoffs>>

\* the state outside the four components
playerVars == <<player, messages, lastEffects, applyCalls>>

closeVars == <<closer>>

turnVars == <<vote_result, turns>>

restVars == <<diskVars, listenVars, playerVars, closeVars, turnVars>>

\* what an operation of one component leaves alone
nonVoteVars == <<giftVars, boardVars, liveVars, restVars>>
nonGiftVars == <<voteVars, boardVars, liveVars, restVars>>
nonBoardVars == <<voteVars, giftVars, liveVars, restVars>>

vars == <<voteVars, giftVars, boardVars, liveVars, restVars>>

----------------------------------------------------------------------------
\* Bounds of the model

MaxSessions == 2
MaxFired == 2
MaxTime == 2
MaxOptions == 3
MaxConcSessions == 1
MaxGifts == 2

\* VoteManager(vote_duration=...), in ticks
VoteDuration == 1

NoTime == -1

Users == {"u1", "u2"}
Platforms == {"bilibili", "douyin"}

----------------------------------------------------------------------------
\* Text helpers

DigitChars == <<"0", "1", "2", "3", "4", "5", "6", "7", "8", "9">>

\* str(k) for 1 <= k <= 99
Str(k) ==
    IF k < 10 THEN <<DigitChars[k + 1]>>
    ELSE <<DigitChars[(k \div 10) + 1], DigitChars[(k % 10) + 1]>>

\* the four patterns start_vote builds for option key k
Patterns(k) ==
    << Str(k),
       <<"xuan">> \o Str(k),
       <<"xuan", "ze">> \o Str(k),
       Str(k) \o <<"hao">> >>

StartsWith(s, p) == Len(p) <= Len(s) /\ SubSeq(s, 1, Len(p)) = p

RECURSIVE LStrip(_)
LStrip(s) == IF s # <<>> /\ Head(s) = "sp" THEN LStrip(Tail(s)) ELSE s

RECURSIVE RStrip(_)
RStrip(s) ==
    IF s # <<>> /\ s[Len(s)] = "sp" THEN RStrip(SubSeq(s, 1, Len(s) - 1)) ELSE s

\* str.strip()
Strip(s) == RStrip(LStrip(s))

\* content == pattern or content.startswith(pattern)
PatternMatches(content, pattern) == content = pattern \/ StartsWith(content, pattern)

\* The chat texts the listeners deliver
Contents ==
    {Str(k) : k \in 1..MaxOptions} \cup
    { <<"xuan", "2">>, <<"sp", "1", "hao", "sp">>, <<"6", "6", "6">> }

Messages == [platform : Platforms, user_id : Users, content : Contents]

\* The chat texts delivered while the listener threads are interleaved
ConcContents == {Str(k) : k \in 1..MaxOptions} \cup { <<"sp", "1", "hao", "sp">> }

ConcMessages == [platform : Platforms, user_id : Users, content : ConcContents]

SetMin(S) == CHOOSE x \in S : \A y \in S : x <= y


----------------------------------------------------------------------------
\* VoteManager: pure parts

\* {str(i+1): {} for i in range(len(options))}
EmptyBallots(n) == [k \in 1..n |-> {}]

\* the option keys, in dict order, that have a pattern matching the text
MatchingKeys(n, content) ==
    {k \in 1..n : \E i \in 1..4 : PatternMatches(content, Patterns(k)[i])}

\* The key process_danmaku settles on: the loops run over the keys in order
\* and over each key's patterns; a match whose ballot set already holds the
\* user is skipped and the scan goes on.  0 = no vote (None).
ChosenKey(vts, user, content) ==
    LET open == {k \in MatchingKeys(Len(vts), content) : user \notin vts[k]}
    IN  IF open = {} THEN 0 ELSE SetMin(open)

\* Mutant: the earlier ballot of the user is not removed
CastVoteKeepOld(vts, key, user) ==
    [k \in DOMAIN vts |-> IF k = key THEN vts[k] \cup {user} ELSE vts[k]]

\* "del self.votes[k][user_id]" for every k holding it, then
\* "self.votes[key][user_id] = username"
CastVote(vts, key, user) ==
    [k \in DOMAIN vts |-> IF k = key THEN (vts[k] \ {user}) \cup {user}
                                      ELSE vts[k] \ {user}]

\* Mutant: no "if not self.voting_active: return None"
ProcessDanmakuUnguarded(active, vts, msg) ==
    LET key == ChosenKey(vts, msg.user_id, Strip(msg.content))
    IN  IF key = 0 THEN [votes |-> vts, ret |-> 0]
        ELSE [votes |-> CastVote(vts, key, msg.user_id), ret |-> key]

\* process_danmaku run without interruption: the ballots after it and its
\* return value
ProcessDanmakuResult(active, vts, msg) ==
    IF ~active THEN [votes |-> vts, ret |-> 0]
    ELSE LET key == ChosenKey(vts, msg.user_id, Strip(msg.content))
         IN  IF key = 0 THEN [votes |-> vts, ret |-> 0]
             ELSE [votes |-> CastVote(vts, key, msg.user_id), ret |-> key]

\* get_vote_counts
VoteCounts(vts) == [k \in DOMAIN vts |-> Cardinality(vts[k])]

\* get_remaining_time at time t: 0 unless a session is open and has a start
\* time, else max(0, self.vote_duration - int(elapsed))
GetRemainingTime(active, start, t) ==
    IF ~active \/ start = NoTime THEN 0
    ELSE IF VoteDuration - (t - start) > 0 THEN VoteDuration - (t - start) ELSE 0

\* Mutant: a later option with an equal count replaces the earlier one
RECURSIVE PyMaxLast(_, _, _)
PyMaxLast(counts, i, best) ==
    IF i > Len(counts) THEN best
    ELSE PyMaxLast(counts, i + 1, IF counts[i] >= counts[best] THEN i ELSE best)

\* max(counts.keys(), key=lambda k: counts[k]): Python's max keeps the
\* first of the maximal elements, in the dict's insertion order
RECURSIVE PyMax(_, _, _)
PyMax(counts, i, best) ==
    IF i > Len(counts) THEN best
    ELSE PyMax(counts, i + 1, IF counts[i] > counts[best] THEN i ELSE best)

WinnerLast(counts) == IF counts # <<>> THEN PyMaxLast(counts, 2, 1) ELSE 1

\* the winner end_vote computes from the counts
Winner(counts) == IF counts # <<>> THEN PyMax(counts, 2, 1) ELSE 1

----------------------------------------------------------------------------
\* VoteManager: operations

\* a listener thread that is not inside process_danmaku
IdleListener ==
    [pc |-> "idle", user |-> "", content |-> <<>>, scanN |-> 0, pos |-> 0,
     key |-> 0, rmK |-> 0, rmN |-> 0]

VoteInit ==
    /\ votes = <<>>
    /\ voting_active = FALSE
    /\ vote_start_time = NoTime
    /\ vote_callback = 0
    /\ timers = {}
    /\ now = 0
    /\ sessions = 0
    /\ fired = 0
    /\ lastOp = "init"
    /\ lastRet = 0
    /\ listeners = [p \in Platforms |-> IdleListener]

\* start_vote(options, callback) with len(options) = n; the callback of the
\* k-th call is named k
StartVoteBody(n) ==
    /\ sessions < MaxSessions
    /\ now + VoteDuration <= MaxTime
    /\ votes' = EmptyBallots(n)
    /\ voting_active' = TRUE
    /\ vote_start_time' = now
    /\ vote_callback' = sessions + 1
    /\ timers' = timers \cup
                    {[id |-> sessions + 1, due |-> now + VoteDuration, pc |-> "sleep"]}
    /\ sessions' = sessions + 1
    /\ fired' = 0
    /\ lastOp' = "start_vote"
    /\ lastRet' = VoteDuration
    /\ UNCHANGED <<now, listeners>>

\* start_vote called on the VoteManager alone
StartVote(n) ==
    /\ StartVoteBody(n)
    /\ UNCHANGED nonVoteVars

\* the body of end_vote
EndVoteBody ==
    LET counts == VoteCounts(votes)
        winner == Winner(counts)
    IN  /\ voting_active' = FALSE
        /\ fired' = IF vote_callback # 0 THEN fired + 1 ELSE fired
        /\ lastOp' = "end_vote"
        /\ lastRet' = winner
        /\ UNCHANGED <<votes, vote_start_time, vote_callback, now, sessions, listeners>>

\* an explicit end_vote() call
EndVote ==
    /\ fired < MaxFired
    /\ EndVoteBody
    /\ UNCHANGED timers
    /\ UNCHANGED nonVoteVars

\* _vote_timer after time.sleep(vote_duration): "if self.voting_active:"
TimerWake(t) ==
    /\ t.pc = "sleep"
    /\ now >= t.due
    /\ timers' = IF voting_active
                  THEN (timers \ {t}) \cup {[t EXCEPT !.pc = "call"]}
                  ELSE timers \ {t}
    /\ UNCHANGED <<votes, voting_active, vote_start_time, vote_callback, now,
                   sessions, fired, lastOp, lastRet, listeners>>
        /\ UNCHANGED nonVoteVars

\* _vote_timer: "self.end_vote()"
TimerEndVote(t) ==
    /\ t.pc = "call"
    /\ timers' = timers \ {t}
    /\ EndVoteBody
    /\ UNCHANGED nonVoteVars

\* process_danmaku(msg), run without interruption
ProcessDanmaku(msg) ==
    LET r == ProcessDanmakuResult(voting_active, votes, msg)
    IN  /\ votes' = r.votes
        /\ lastOp' = "process_danmaku"
        /\ lastRet' = r.ret
        /\ UNCHANGED <<voting_active, vote_start_time, vote_callback, timers, now,
                       sessions, fired, listeners>>
        /\ UNCHANGED nonVoteVars

\* the clock
Tick ==
    /\ now < MaxTime
    /\ now' = now + 1
    /\ UNCHANGED <<votes, voting_active, vote_start_time, vote_callback, timers,
                   sessions, fired, lastOp, lastRet, listeners>>
        /\ UNCHANGED nonVoteVars

\* the steps of the timer threads
TimerStep ==
    \/ \E t \in timers : TimerWake(t)
    \/ \E t \in timers : TimerEndVote(t)

VoteStep ==
    \/ \E n \in 1..MaxOptions : StartVote(n)
    \/ EndVote
    \/ \E t \in timers : TimerWake(t)
    \/ \E t \in timers : TimerEndVote(t)
    \/ \E msg \in Messages : ProcessDanmaku(msg)
    \/ Tick

\* the VoteManager driven by a caller that starts a session only when none
\* is open
VoteSeqStep ==
    \/ \E n \in 1..MaxOptions : ~voting_active /\ StartVote(n)
    \/ EndVote
    \/ \E t \in timers : TimerWake(t)
    \/ \E t \in timers : TimerEndVote(t)
    \/ \E msg \in Messages : ProcessDanmaku(msg)
    \/ Tick

\* a session with so many options that one option's number starts with
\* another's
ManyOptions == 10

\* chat texts naming option 1, option 2 and the last option
ManyContents == {Str(1), Str(2), Str(ManyOptions)}

ManyMessages == [platform : {"bilibili"}, user_id : Users, content : ManyContents]

VoteManyStep ==
    \/ StartVote(ManyOptions)
    \/ EndVote
    \/ \E msg \in ManyMessages : ProcessDanmaku(msg)

----------------------------------------------------------------------------
\* process_danmaku as the listener threads run it: one step per access to
\* the shared VoteManager fields.  The listener of platform l is the thread
\* that delivers the events of that platform.

\* what a call that raised returns to the model's observer
Raised == -1

\* position pos of the nested loops "for key, patterns in ...: for pattern in
\* patterns:" names the key and the pattern
KeyAt(pos) == ((pos - 1) \div 4) + 1
PatAt(pos) == ((pos - 1) % 4) + 1

\* the positions from pos on, within the scanN keys, whose pattern matches
MatchesFrom(content, scanN, pos) ==
    {q \in pos..(4 * scanN) : PatternMatches(content, Patterns(KeyAt(q))[PatAt(q)])}

ListenerReturns(l, ret) ==
    /\ listeners' = [listeners EXCEPT ![l] = IdleListener]
    /\ lastOp' = "process_danmaku"
    /\ lastRet' = ret

\* the call, and "if not self.voting_active: return None"
PdBegin(l, msg) ==
    /\ listeners[l].pc = "idle"
    /\ msg.platform = l
    /\ IF ~voting_active
       THEN ListenerReturns(l, 0)
       ELSE /\ listeners' = [listeners EXCEPT ![l] =
                    [IdleListener EXCEPT !.pc = "scan", !.user = msg.user_id,
                                         !.content = Strip(msg.content),
                                         !.scanN = Len(votes), !.pos = 1]]
            /\ UNCHANGED <<lastOp, lastRet>>
    /\ UNCHANGED <<votes, voting_active, vote_start_time, vote_callback, timers,
                   now, sessions, fired>>
        /\ UNCHANGED nonVoteVars

\* the scan up to the next matching pattern, and
\* "if msg.user_id not in self.votes[key]:"
PdScan(l) ==
    LET me == listeners[l]
        hits == MatchesFrom(me.content, me.scanN, me.pos)
    IN  /\ me.pc = "scan"
        /\ IF hits = {}
           THEN ListenerReturns(l, 0)
           ELSE LET q == SetMin(hits)
                    key == KeyAt(q)
                IN  IF key > Len(votes)
                    THEN ListenerReturns(l, Raised)
                    ELSE /\ listeners' = [listeners EXCEPT ![l] =
                                 IF me.user \in votes[key]
                                 THEN [me EXCEPT !.pos = q + 1]
                                 ELSE [me EXCEPT !.pc = "rm", !.key = key,
                                                 !.rmK = 1, !.rmN = Len(votes)]]
                         /\ UNCHANGED <<lastOp, lastRet>>
        /\ UNCHANGED <<votes, voting_active, vote_start_time, vote_callback,
                       timers, now, sessions, fired>>
        /\ UNCHANGED nonVoteVars

\* "for k in self.votes: if msg.user_id in self.votes[k]:"
PdRmCheck(l) ==
    LET me == listeners[l]
    IN  /\ me.pc = "rm"
        /\ IF me.rmK > me.rmN
           THEN /\ listeners' = [listeners EXCEPT ![l] = [me EXCEPT !.pc = "set"]]
                /\ UNCHANGED <<lastOp, lastRet>>
           ELSE IF me.rmK > Len(votes)
           THEN ListenerReturns(l, Raised)
           ELSE /\ listeners' = [listeners EXCEPT ![l] =
                        IF me.user \in votes[me.rmK]
                        THEN [me EXCEPT !.pc = "del"]
                        ELSE [me EXCEPT !.rmK = me.rmK + 1]]
                /\ UNCHANGED <<lastOp, lastRet>>
        /\ UNCHANGED <<votes, voting_active, vote_start_time, vote_callback,
                       timers, now, sessions, fired>>
        /\ UNCHANGED nonVoteVars

\* "del self.votes[k][msg.user_id]": KeyError when the entry is gone
PdRmDel(l) ==
    LET me == listeners[l]
    IN  /\ me.pc = "del"
        /\ IF me.rmK > Len(votes) \/ me.user \notin votes[me.rmK]
           THEN /\ ListenerReturns(l, Raised)
                /\ UNCHANGED votes
           ELSE /\ votes' = [votes EXCEPT ![me.rmK] = @ \ {me.user}]
                /\ listeners' = [listeners EXCEPT ![l] =
                        [me EXCEPT !.pc = "rm", !.rmK = me.rmK + 1]]
                /\ UNCHANGED <<lastOp, lastRet>>
        /\ UNCHANGED <<voting_active, vote_start_time, vote_callback, timers,
                       now, sessions, fired>>
        /\ UNCHANGED nonVoteVars

\* "self.votes[key][msg.user_id] = msg.username; return key"
PdSet(l) ==
    LET me == listeners[l]
    IN  /\ me.pc = "set"
        /\ IF me.key > Len(votes)
           THEN /\ ListenerReturns(l, Raised)
                /\ UNCHANGED votes
           ELSE /\ votes' = [votes EXCEPT ![me.key] = @ \cup {me.user}]
                /\ ListenerReturns(l, me.key)
        /\ UNCHANGED <<voting_active, vote_start_time, vote_callback, timers,
                       now, sessions, fired>>
        /\ UNCHANGED nonVoteVars

VoteConcStep ==
    \/ \E n \in 1..MaxOptions : sessions < MaxConcSessions /\ StartVote(n)
    \/ EndVote
    \/ \E l \in Platforms, msg \in ConcMessages : PdBegin(l, msg)
    \/ \E l \in Platforms : PdScan(l)
    \/ \E l \in Platforms : PdRmCheck(l)
    \/ \E l \in Platforms : PdRmDel(l)
    \/ \E l \in Platforms : PdSet(l)

\* end_vote as the timer thread runs it next to the listener threads: one
\* step per access to the shared VoteManager fields.  Each read of the
\* whole dict is taken as one step.

\* no thread is inside end_vote, no callback has run
NoClose == [pc |-> "idle", counts |-> <<>>, winner |-> 0, read |-> <<>>, calls |-> 0]

CloseInit == closer = NoClose

\* _vote_timer: "if self.voting_active: self.end_vote()", and end_vote's
\* "self.voting_active = False"
EvFlag ==
    /\ closer.pc = "idle"
    /\ voting_active
    /\ voting_active' = FALSE
    /\ closer' = [closer EXCEPT !.pc = "count"]
    /\ UNCHANGED <<votes, vote_start_time, vote_callback, timers, now, sessions,
                   fired, lastOp, lastRet, listeners>>
    /\ UNCHANGED <<giftVars, boardVars, liveVars, diskVars, listenVars, playerVars, turnVars>>

\* "counts = self.get_vote_counts()" and the winner
EvCount ==
    /\ closer.pc = "count"
    /\ closer' = [closer EXCEPT !.pc = "call",
                                !.counts = VoteCounts(votes),
                                !.winner = Winner(VoteCounts(votes))]
    /\ UNCHANGED voteVars
    /\ UNCHANGED <<giftVars, boardVars, liveVars, diskVars, listenVars, playerVars, turnVars>>

\* "self.vote_callback(winner, counts)": _on_vote_end walks
\* self.vote_manager.votes to credit the voters
EvCallback ==
    /\ closer.pc = "call"
    /\ closer' = [closer EXCEPT !.pc = "idle",
                                !.read = IF vote_callback # 0 THEN votes ELSE @,
                                !.calls = IF vote_callback # 0 THEN @ + 1 ELSE @]
    /\ fired' = IF vote_callback # 0 THEN fired + 1 ELSE fired
    /\ lastOp' = "end_vote"
    /\ lastRet' = closer.winner
    /\ UNCHANGED <<votes, voting_active, vote_start_time, vote_callback, timers, now,
                   sessions, listeners>>
    /\ UNCHANGED <<giftVars, boardVars, liveVars, diskVars, listenVars, playerVars, turnVars>>

\* one listener thread, the one of "bilibili", next to the thread inside
\* end_vote
CloseStep ==
    \/ \E n \in 1..MaxOptions : sessions < MaxConcSessions /\ StartVote(n)
    \/ EvFlag
    \/ EvCount
    \/ EvCallback
    \/ \E msg \in ConcMessages : PdBegin("bilibili", msg)
    \/ PdScan("bilibili")
    \/ PdRmCheck("bilibili")
    \/ PdRmDel("bilibili")
    \/ PdSet("bilibili")

----------------------------------------------------------------------------
\* GiftProcessor: the tier table and the pure parts

\* GIFT_EFFECTS, in the dict's order; min_value in fen; True is 1
GIFT_EFFECTS ==
    << [id |-> "cultivation_small", min_value |-> 10,
        effects |-> << [key |-> "cultivation", value |-> 5] >>],
       [id |-> "cultivation_medium", min_value |-> 100,
        effects |-> << [key |-> "cultivation", value |-> 20] >>],
       [id |-> "cultivation_large", min_value |-> 1000,
        effects |-> << [key |-> "cultivation", value |-> 100] >>],
       [id |-> "hp_boost", min_value |-> 500,
        effects |-> << [key |-> "max_hp", value |-> 50], [key |-> "hp", value |-> 50] >>],
       [id |-> "mp_boost", min_value |-> 500,
        effects |-> << [key |-> "max_mp", value |-> 30], [key |-> "mp", value |-> 30] >>],
       [id |-> "attribute_boost", min_value |-> 2000,
        effects |-> << [key |-> "random_attribute", value |-> 2] >>],
       [id |-> "rename", min_value |-> 5000,
        effects |-> << [key |-> "can_rename", value |-> 1] >>],
       [id |-> "breakthrough_chance", min_value |-> 10000,
        effects |-> << [key |-> "breakthrough_boost", value |-> 30] >>],
       [id |-> "resurrection", min_value |-> 20000,
        effects |-> << [key |-> "resurrection", value |-> 1] >>] >>

\* effect.effects.get(key): the value, 0 when the key is absent
EffectGet(tier, key) ==
    LET e == GIFT_EFFECTS[tier].effects
        hit == {i \in DOMAIN e : e[i].key = key}
    IN  IF hit = {} THEN 0 ELSE e[CHOOSE i \in hit : TRUE].value

\* sorted(..., reverse=True) on the keys: the indices 1..n in descending
\* order of keys[i]; Python's sort is stable, also with reverse=True, so
\* equal keys stay in their original order
RECURSIVE StableOrderDesc(_, _)
StableOrderDesc(keys, n) ==
    IF n = 0 THEN <<>>
    ELSE LET ord == StableOrderDesc(keys, n - 1)
             p == Cardinality({j \in DOMAIN ord : keys[ord[j]] >= keys[n]})
         IN  SubSeq(ord, 1, p) \o <<n>> \o SubSeq(ord, p + 1, Len(ord))

\* the same with reverse=False
RECURSIVE StableOrderAsc(_, _)
StableOrderAsc(keys, n) ==
    IF n = 0 THEN <<>>
    ELSE LET ord == StableOrderAsc(keys, n - 1)
             p == Cardinality({j \in DOMAIN ord : keys[ord[j]] <= keys[n]})
         IN  SubSeq(ord, 1, p) \o <<n>> \o SubSeq(ord, p + 1, Len(ord))

TierMins == [i \in DOMAIN GIFT_EFFECTS |-> GIFT_EFFECTS[i].min_value]

\* the first tier of the order with value >= min_value; 0 = None
FirstQualifying(order, value) ==
    LET ok == {j \in DOMAIN order : value >= GIFT_EFFECTS[order[j]].min_value}
    IN  IF ok = {} THEN 0 ELSE order[SetMin(ok)]

\* Mutant: the tiers are scanned from the lowest min_value up
DetermineEffectAscending(value) ==
    FirstQualifying(StableOrderAsc(TierMins, Len(TierMins)), value)

\* _determine_effect: index into GIFT_EFFECTS, 0 = None
DetermineEffect(value) ==
    FirstQualifying(StableOrderDesc(TierMins, Len(TierMins)), value)

\* f"{gift.platform}_{gift.user_id}": the platforms hold no "_", so the
\* string determines the pair
DonorKey(gift) == <<gift.platform, gift.user_id>>

\* the position of the key in donor_stats, 0 when absent
DonorIndex(stats, key) ==
    LET hit == {i \in DOMAIN stats : stats[i].key = key}
    IN  IF hit = {} THEN 0 ELSE CHOOSE i \in hit : TRUE

\* Mutant: the rank is the position in the dict
UpdateRankingsByArrival(stats) ==
    [i \in DOMAIN stats |-> [stats[i] EXCEPT !.contribution_rank = i]]

\* _update_rankings
UpdateRankings(stats) ==
    LET totals == [i \in DOMAIN stats |-> stats[i].total_value]
        order == StableOrderDesc(totals, Len(stats))
    IN  [i \in DOMAIN stats |->
            [stats[i] EXCEPT !.contribution_rank =
                CHOOSE p \in DOMAIN order : order[p] = i]]

\* Mutant: total_gifts counts the gift events, not the units given
UpdateDonorStatsCountsEvents(stats, gift, value, t) ==
    LET key == DonorKey(gift)
        known == IF DonorIndex(stats, key) # 0 THEN stats
                 ELSE Append(stats, [key |-> key, total_value |-> 0, total_gifts |-> 0,
                                     last_gift_time |-> 0, contribution_rank |-> 0])
        i == DonorIndex(known, key)
    IN  UpdateRankings(
            [known EXCEPT ![i] = [@ EXCEPT !.total_value = @ + value,
                                           !.total_gifts = @ + 1,
                                           !.last_gift_time = t]])

\* Mutant: total_value is the value of the donor's last gift
UpdateDonorStatsLastValue(stats, gift, value, t) ==
    LET key == DonorKey(gift)
        known == IF DonorIndex(stats, key) # 0 THEN stats
                 ELSE Append(stats, [key |-> key, total_value |-> 0, total_gifts |-> 0,
                                     last_gift_time |-> 0, contribution_rank |-> 0])
        i == DonorIndex(known, key)
    IN  UpdateRankings(
            [known EXCEPT ![i] = [@ EXCEPT !.total_value = value,
                                           !.total_gifts = @ + gift.gift_count,
                                           !.last_gift_time = t]])

\* _update_donor_stats; t is the time of the call
UpdateDonorStats(stats, gift, value, t) ==
    LET key == DonorKey(gift)
        known == IF DonorIndex(stats, key) # 0 THEN stats
                 ELSE Append(stats, [key |-> key, total_value |-> 0, total_gifts |-> 0,
                                     last_gift_time |-> 0, contribution_rank |-> 0])
        i == DonorIndex(known, key)
    IN  UpdateRankings(
            [known EXCEPT ![i] = [@ EXCEPT !.total_value = @ + value,
                                           !.total_gifts = @ + gift.gift_count,
                                           !.last_gift_time = t]])

\* self.records[-1000:]
RecordsKept == 1000

LastN(seq, n) == IF Len(seq) <= n THEN seq ELSE SubSeq(seq, Len(seq) - n + 1, Len(seq))

\* the content _save_records writes
SaveFile(recs, stats) ==
    [exists |-> TRUE, records |-> LastN(recs, RecordsKept), donor_stats |-> stats]

----------------------------------------------------------------------------
\* GiftProcessor: operations

\* the donors of the model: (platform, user_id)
Donors == { <<"bilibili", "u1">>, <<"douyin", "u1">>, <<"bilibili", "u2">> }

\* gift_value of one unit, in fen
UnitValues == {0, 5, 500, 2500, 10000}

GiftEvents ==
    {g \in [platform : Platforms, user_id : Users, gift_count : {1, 2},
            gift_value : UnitValues] : <<g.platform, g.user_id>> \in Donors}

NoRename == [donor |-> "", user_id |-> ""]

\* no process_gift call was made yet
NoGift == [platform |-> "", user_id |-> "", gift_count |-> 0, gift_value |-> 0]

GiftInit ==
    /\ donor_stats = <<>>
    /\ records = <<>>
    /\ pending_effects = <<>>
    /\ pending_rename = NoRename
    /\ saved = [exists |-> FALSE, records |-> <<>>, donor_stats |-> <<>>]
    /\ effectCalls = 0
    /\ giftsDone = 0
    /\ lastGift = NoGift
    /\ enqCount = 0
    /\ loop = [pc |-> "idle", effects |-> <<>>]
    /\ applied = <<>>

\* process_gift(gift): its accesses to the fields shared with the game loop
\* are the single append to pending_effects, so the call is one step
ProcessGiftBody(gift) ==
    LET total_value == gift.gift_value * gift.gift_count
        stats == UpdateDonorStats(donor_stats, gift, total_value, giftsDone + 1)
        effect == DetermineEffect(total_value)
        recs == Append(records,
                    [user_id |-> gift.user_id, platform |-> gift.platform,
                     gift_count |-> gift.gift_count, gift_value |-> total_value,
                     effect_applied |-> GIFT_EFFECTS[effect].id])
    IN  /\ giftsDone' = giftsDone + 1
        /\ lastGift' = gift
        /\ donor_stats' = stats
        /\ IF effect # 0
           THEN /\ records' = recs
                /\ pending_effects' = Append(pending_effects,
                        [effect |-> effect, donor |-> gift.user_id,
                         value |-> total_value, seq |-> enqCount + 1])
                /\ enqCount' = enqCount + 1
                /\ pending_rename' =
                        IF EffectGet(effect, "can_rename") # 0
                        THEN [donor |-> gift.user_id, user_id |-> gift.user_id]
                        ELSE pending_rename
                /\ saved' = SaveFile(recs, stats)
                /\ effectCalls' = effectCalls + 1
           ELSE UNCHANGED <<records, pending_effects, enqCount, pending_rename,
                            saved, effectCalls>>
        /\ UNCHANGED <<loop, applied>>

\* process_gift(gift) called on the GiftProcessor alone
ProcessGift(gift) ==
    /\ ProcessGiftBody(gift)
    /\ UNCHANGED nonGiftVars

\* get_pending_effects, called by _generate_story: "self.pending_effects.copy()"
GameLoopCopy ==
    /\ loop.pc = "idle"
    /\ loop' = [pc |-> "copied", effects |-> pending_effects]
    /\ UNCHANGED <<donor_stats, records, pending_effects, pending_rename, saved,
                   effectCalls, giftsDone, lastGift, enqCount, applied>>
        /\ UNCHANGED nonGiftVars

\* "self.pending_effects = []", the return, and _generate_story applying
\* what was returned to the player
GameLoopClearApply ==
    /\ loop.pc = "copied"
    /\ pending_effects' = <<>>
    /\ applied' = applied \o [i \in DOMAIN loop.effects |-> loop.effects[i].seq]
    /\ loop' = [pc |-> "idle", effects |-> <<>>]
    /\ UNCHANGED <<donor_stats, records, pending_rename, saved, effectCalls,
                   giftsDone, lastGift, enqCount>>
        /\ UNCHANGED nonGiftVars

MaxRankGifts == 3

\* the gifts of two donors whose totals can meet
RankGifts ==
    {g \in [platform : Platforms, user_id : {"u1"}, gift_count : {1, 2},
            gift_value : {0, 500}] : TRUE}

\* three gifts in a row, for the ranking of donors with equal totals
RankStep == \E gift \in RankGifts : giftsDone < MaxRankGifts /\ ProcessGift(gift)

GiftStep ==
    \/ \E gift \in GiftEvents : giftsDone < MaxGifts /\ ProcessGift(gift)
    \/ GameLoopCopy
    \/ GameLoopClearApply

----------------------------------------------------------------------------
\* Leaderboard: pure parts.  lb is the Leaderboard object: [boards,
\* game_stats, history]; a board is the sequence of its entries in the
\* dict's insertion order; scores of the contribution board are in fen.

\* the three boards __init__ creates (LeaderboardType values)
BoardKinds == {"contribution", "vote", "lucky"}

\* LeaderboardType.GAME_PROGRESS.value has no board
AllKinds == BoardKinds \cup {"progress"}

\* the fields of GameStats the model keeps, with their defaults; a name
\* is a sequence of character tokens
NewGameStats ==
    [character_name |-> <<>>, total_stories |-> 0, total_votes |-> 0,
     total_gifts_value |-> 0, total_gifts_count |-> 0]

\* the state __init__ builds before _load
NewLeaderboard ==
    [boards |-> [k \in BoardKinds |-> <<>>],
     game_stats |-> NewGameStats,
     history |-> <<>>]

\* f"{platform}_{user_id}"
BoardKey(user_id, platform) == <<platform, user_id>>

\* LeaderboardEntry(user_id, username, platform, score=0, extra_data=...);
\* extra_data is spread over total_votes, correct_votes and gifts, a key that
\* is absent reading as 0 or as the empty list
NewEntry(user_id, platform) ==
    [key |-> BoardKey(user_id, platform), user_id |-> user_id, platform |-> platform,
     score |-> 0, total_votes |-> 0, correct_votes |-> 0, gifts |-> <<>>]

\* the position of the key in the board, 0 when absent
BoardIndex(board, key) ==
    LET hit == {i \in DOMAIN board : board[i].key = key}
    IN  IF hit = {} THEN 0 ELSE CHOOSE i \in hit : TRUE

\* "if key not in board: board[key] = LeaderboardEntry(...)"
WithEntry(board, user_id, platform) ==
    IF BoardIndex(board, BoardKey(user_id, platform)) # 0 THEN board
    ELSE Append(board, NewEntry(user_id, platform))

\* len(entry.extra_data.get("gifts", [])) < 100
GiftsKept == 100

\* Mutant: the score is the value of the donor's last gift
UpdateContributionLastValue(lb, user_id, platform, value) ==
    LET board == WithEntry(lb.boards.contribution, user_id, platform)
        i == BoardIndex(board, BoardKey(user_id, platform))
        entry == [board[i] EXCEPT
                    !.score = value,
                    !.gifts = IF Len(@) < GiftsKept THEN Append(@, value) ELSE @]
    IN  [lb EXCEPT !.boards.contribution = [board EXCEPT ![i] = entry],
                   !.game_stats.total_gifts_value = @ + value,
                   !.game_stats.total_gifts_count = @ + 1]

\* update_contribution without its _save
UpdateContribution(lb, user_id, platform, value) ==
    LET board == WithEntry(lb.boards.contribution, user_id, platform)
        i == BoardIndex(board, BoardKey(user_id, platform))
        entry == [board[i] EXCEPT
                    !.score = @ + value,
                    !.gifts = IF Len(@) < GiftsKept THEN Append(@, value) ELSE @]
    IN  [lb EXCEPT !.boards.contribution = [board EXCEPT ![i] = entry],
                   !.game_stats.total_gifts_value = @ + value,
                   !.game_stats.total_gifts_count = @ + 1]

\* _update_lucky_board
UpdateLuckyBoard(boards, user_id, platform) ==
    LET board == WithEntry(boards.lucky, user_id, platform)
        i == BoardIndex(board, BoardKey(user_id, platform))
    IN  [boards EXCEPT !.lucky = [board EXCEPT ![i].score = @ + 1]]

\* Mutant: the bonus of a winning vote is 1 instead of 2
UpdateVoteParticipationBonusOne(lb, user_id, platform, voted_option, winning_option) ==
    LET board == WithEntry(lb.boards.vote, user_id, platform)
        i == BoardIndex(board, BoardKey(user_id, platform))
        won == voted_option = winning_option
        entry == [board[i] EXCEPT
                    !.total_votes = @ + 1,
                    !.score = IF won THEN @ + 2 ELSE @ + 1,
                    !.correct_votes = IF won THEN @ + 1 ELSE @]
        boards == [lb.boards EXCEPT !.vote = [board EXCEPT ![i] = entry]]
    IN  [lb EXCEPT !.boards = IF won THEN UpdateLuckyBoard(boards, user_id, platform)
                              ELSE boards]

\* update_vote_participation without its _save
UpdateVoteParticipation(lb, user_id, platform, voted_option, winning_option) ==
    LET board == WithEntry(lb.boards.vote, user_id, platform)
        i == BoardIndex(board, BoardKey(user_id, platform))
        won == voted_option = winning_option
        entry == [board[i] EXCEPT
                    !.total_votes = @ + 1,
                    !.score = IF won THEN @ + 3 ELSE @ + 1,
                    !.correct_votes = IF won THEN @ + 1 ELSE @]
        boards == [lb.boards EXCEPT !.vote = [board EXCEPT ![i] = entry]]
    IN  [lb EXCEPT !.boards = IF won THEN UpdateLuckyBoard(boards, user_id, platform)
                              ELSE boards]

\* self.boards.get(board_type.value, {})
BoardOf(lb, kind) == IF kind \in DOMAIN lb.boards THEN lb.boards[kind] ELSE <<>>

\* sorted(board.values(), key=lambda e: e.score, reverse=True)
SortedEntries(board) ==
    LET scores == [i \in DOMAIN board |-> board[i].score]
        order == StableOrderDesc(scores, Len(board))
    IN  [p \in DOMAIN order |-> board[order[p]]]

\* get_leaderboard(board_type, limit)
GetLeaderboard(lb, kind, limit) ==
    LET sorted == SortedEntries(BoardOf(lb, kind))
    IN  SubSeq(sorted, 1, IF limit < Len(sorted) THEN limit ELSE Len(sorted))

\* get_user_rank(board_type, user_id, platform); 0 = None
GetUserRank(lb, kind, user_id, platform) ==
    LET board == BoardOf(lb, kind)
        key == BoardKey(user_id, platform)
        sorted == SortedEntries(board)
        hit == {p \in DOMAIN sorted :
                    BoardKey(sorted[p].user_id, sorted[p].platform) = key}
    IN  IF BoardIndex(board, key) = 0 \/ hit = {} THEN 0 ELSE SetMin(hit)

\* "if len(self.history) > 500: self.history = self.history[-500:]"
HistoryKept == 500

\* add_history_event without its _save
AddHistoryEvent(lb, event) ==
    [lb EXCEPT !.history = LastN(Append(@, event), HistoryKept)]

\* key.startswith("total_"), for the keys of the model
StartsWithTotal(key) ==
    key \in {"total_stories", "total_votes", "total_gifts_value", "total_gifts_count",
             "total_bogus"}

\* one keyword argument of update_game_stats: the value of a key starting
\* with "total_" is added when it is an int, any other value is assigned, a
\* key that is no attribute of GameStats is skipped
ApplyStat(stats, kw) ==
    IF kw.key \notin DOMAIN stats THEN stats
    ELSE IF kw.is_int /\ StartsWithTotal(kw.key)
         THEN [stats EXCEPT ![kw.key] = @ + kw.value]
         ELSE [stats EXCEPT ![kw.key] = kw.value]

RECURSIVE ApplyStats(_, _)
ApplyStats(stats, kwargs) ==
    IF kwargs = <<>> THEN stats ELSE ApplyStats(ApplyStat(stats, Head(kwargs)), Tail(kwargs))

\* update_game_stats(**kwargs) without its _save
UpdateGameStats(lb, kwargs) == [lb EXCEPT !.game_stats = ApplyStats(@, kwargs)]

\* "self.history[-100:]" in _save
HistorySaved == 100

\* asdict(entry) under its dict key, as _save writes it
DumpBoard(board) ==
    [i \in DOMAIN board |->
        [k |-> board[i].key,
         v |-> [user_id |-> board[i].user_id, platform |-> board[i].platform,
                score |-> board[i].score,
                extra_data |-> [total_votes |-> board[i].total_votes,
                                correct_votes |-> board[i].correct_votes,
                                gifts |-> board[i].gifts]]]]

\* the content _save writes
SaveData(lb) ==
    [exists |-> TRUE,
     boards |-> [k \in DOMAIN lb.boards |-> DumpBoard(lb.boards[k])],
     game_stats |-> lb.game_stats,
     history |-> LastN(lb.history, HistorySaved)]

\* Mutant: the scores come back cut to whole yuan
ParseBoardRounded(items) ==
    [i \in DOMAIN items |->
        [key |-> items[i].k,
         user_id |-> items[i].v.user_id, platform |-> items[i].v.platform,
         score |-> items[i].v.score \div 100,
         total_votes |-> items[i].v.extra_data.total_votes,
         correct_votes |-> items[i].v.extra_data.correct_votes,
         gifts |-> items[i].v.extra_data.gifts]]

\* {k: LeaderboardEntry(**v) for k, v in entries.items()}
ParseBoard(items) ==
    [i \in DOMAIN items |->
        [key |-> items[i].k,
         user_id |-> items[i].v.user_id, platform |-> items[i].v.platform,
         score |-> items[i].v.score,
         total_votes |-> items[i].v.extra_data.total_votes,
         correct_votes |-> items[i].v.extra_data.correct_votes,
         gifts |-> items[i].v.extra_data.gifts]]

\* no save file
NoFile == [exists |-> FALSE]

\* __init__ followed by _load on the file content
LoadData(file) ==
    IF ~file.exists THEN NewLeaderboard
    ELSE [boards |-> [k \in BoardKinds |->
                        IF k \in DOMAIN file.boards THEN ParseBoard(file.boards[k])
                        ELSE <<>>],
          game_stats |-> file.game_stats,
          history |-> file.history]

----------------------------------------------------------------------------
\* Leaderboard: operations.  Every mutating method ends with self._save().

MaxBoardOps == 2
MaxEvents == 2
MaxHistoryEvents == 101
MaxHistoryOps == 1

\* value of a gift handed to update_contribution, in fen
BoardValues == {50, 500}

\* keyword arguments of the update_game_stats calls
StatsKwargs ==
    { << [key |-> "total_stories", value |-> 1, is_int |-> TRUE] >>,
      << [key |-> "character_name", value |-> <<"a">>, is_int |-> FALSE] >>,
      << [key |-> "total_bogus", value |-> 1, is_int |-> TRUE] >> }

BoardInit ==
    /\ leaderboard = NewLeaderboard
    /\ lbFile = NoFile
    /\ historyCalls = 0
    /\ boardOps = 0
    /\ partLog = <<>>

\* leaderboard.update_contribution(user_id, username, platform, value)
CallUpdateContribution(user_id, platform, value) ==
    LET lb == UpdateContribution(leaderboard, user_id, platform, value)
    IN  /\ leaderboard' = lb
        /\ lbFile' = SaveData(lb)
        /\ boardOps' = boardOps + 1
        /\ UNCHANGED <<historyCalls, partLog>>
        /\ UNCHANGED nonBoardVars

\* leaderboard.update_vote_participation(user_id, username, platform,
\* voted_option, winning_option)
CallUpdateVoteParticipation(user_id, platform, voted_option, winning_option) ==
    LET lb == UpdateVoteParticipation(leaderboard, user_id, platform,
                                      voted_option, winning_option)
    IN  /\ leaderboard' = lb
        /\ lbFile' = SaveData(lb)
        /\ boardOps' = boardOps + 1
        /\ partLog' = Append(partLog, [key |-> BoardKey(user_id, platform),
                                       won |-> voted_option = winning_option])
        /\ UNCHANGED historyCalls
        /\ UNCHANGED nonBoardVars

\* leaderboard.add_history_event(event_type, ...); the timestamp of the
\* event is the number of the call
CallAddHistoryEvent(event_type) ==
    LET lb == AddHistoryEvent(leaderboard,
                              [type |-> event_type, timestamp |-> historyCalls + 1])
    IN  /\ leaderboard' = lb
        /\ lbFile' = SaveData(lb)
        /\ historyCalls' = historyCalls + 1
        /\ UNCHANGED <<boardOps, partLog>>
        /\ UNCHANGED nonBoardVars

\* leaderboard.update_game_stats(**kwargs)
CallUpdateGameStats(kwargs) ==
    LET lb == UpdateGameStats(leaderboard, kwargs)
    IN  /\ leaderboard' = lb
        /\ lbFile' = SaveData(lb)
        /\ boardOps' = boardOps + 1
        /\ UNCHANGED <<historyCalls, partLog>>
        /\ UNCHANGED nonBoardVars

\* leaderboard.reset()
CallReset ==
    /\ leaderboard' = NewLeaderboard
    /\ lbFile' = SaveData(NewLeaderboard)
    /\ boardOps' = boardOps + 1
    /\ partLog' = <<>>
    /\ UNCHANGED historyCalls
    /\ UNCHANGED nonBoardVars

\* the program is started again: Leaderboard() loads the save file
Restart ==
    /\ leaderboard' = LoadData(lbFile)
    /\ UNCHANGED <<lbFile, historyCalls, boardOps, partLog>>
    /\ UNCHANGED nonBoardVars

BoardStep ==
    \/ \E d \in Donors, v \in BoardValues :
          boardOps < MaxBoardOps /\ CallUpdateContribution(d[2], d[1], v)
    \/ \E d \in Donors, voted, winning \in 1..2 :
          boardOps < MaxBoardOps /\ CallUpdateVoteParticipation(d[2], d[1], voted, winning)
    \/ historyCalls < MaxEvents /\ CallAddHistoryEvent("event")
    \/ \E kwargs \in StatsKwargs : boardOps < MaxBoardOps /\ CallUpdateGameStats(kwargs)
    \/ boardOps < MaxBoardOps /\ CallReset
    \/ Restart

\* a long run of add_history_event calls around one call of each other
\* mutating method
HistoryStep ==
    \/ boardOps < MaxHistoryOps /\ CallUpdateContribution("u1", "bilibili", 500)
    \/ boardOps < MaxHistoryOps /\ CallUpdateVoteParticipation("u1", "bilibili", 1, 1)
    \/ historyCalls < MaxHistoryEvents /\ CallAddHistoryEvent("event")
    \/ \E kwargs \in StatsKwargs : boardOps < MaxHistoryOps /\ CallUpdateGameStats(kwargs)
    \/ boardOps < MaxHistoryOps /\ CallReset
    \/ Restart

----------------------------------------------------------------------------
\* Player and GiftProcessor.apply_effects_to_player.  The attributes are
\* named by the tokens "tipo", "shenshi", "wuxing", "jiyuan", "xinjing".

NoPlayer == [exists |-> FALSE]

Attributes == {"tipo", "shenshi", "wuxing", "jiyuan", "xinjing"}

\* BASE_ATTRIBUTES
BASE_ATTRIBUTES == [a \in Attributes |-> 10]

\* SPIRITUAL_ROOTS: the "bonus" of each root
SPIRITUAL_ROOTS ==
    << [tipo |-> 3, shenshi |-> 1, wuxing |-> 0, jiyuan |-> 0, xinjing |-> 0],
       [tipo |-> 0, shenshi |-> 0, wuxing |-> 2, jiyuan |-> 0, xinjing |-> 2],
       [tipo |-> 0, shenshi |-> 3, wuxing |-> 0, jiyuan |-> 0, xinjing |-> 1],
       [tipo |-> 2, shenshi |-> 2, wuxing |-> 0, jiyuan |-> 0, xinjing |-> 0],
       [tipo |-> 2, shenshi |-> 0, wuxing |-> 0, jiyuan |-> 0, xinjing |-> 2],
       [tipo |-> 0, shenshi |-> 4, wuxing |-> 0, jiyuan |-> 0, xinjing |-> 0],
       [tipo |-> 0, shenshi |-> 2, wuxing |-> 2, jiyuan |-> 0, xinjing |-> 0],
       [tipo |-> 0, shenshi |-> 0, wuxing |-> 3, jiyuan |-> 2, xinjing |-> 0],
       [tipo |-> 2, shenshi |-> 2, wuxing |-> 2, jiyuan |-> 2, xinjing |-> 2] >>

\* len(CULTIVATION_REALMS)
RealmCount == 10

\* _calculate_max_hp
CalculateMaxHp(realm_index, attributes) == 100 + realm_index * 50 + attributes["tipo"] * 5

\* _calculate_max_mp
CalculateMaxMp(realm_index, attributes) == 50 + realm_index * 30 + attributes["shenshi"] * 3

\* Player(name, gender, SPIRITUAL_ROOTS[spiritual_root_idx])
NewPlayer(spiritual_root_idx) ==
    LET attributes == [a \in Attributes |->
                          BASE_ATTRIBUTES[a] + SPIRITUAL_ROOTS[spiritual_root_idx + 1][a]]
    IN  [exists |-> TRUE,
         realm_index |-> 0,
         cultivation_progress |-> 0,
         attributes |-> attributes,
         max_hp |-> CalculateMaxHp(0, attributes),
         hp |-> CalculateMaxHp(0, attributes),
         max_mp |-> CalculateMaxMp(0, attributes),
         mp |-> CalculateMaxMp(0, attributes)]

\* the "while" of add_cultivation: one realm up per 100 points of progress
RECURSIVE Breakthroughs(_)
Breakthroughs(p) ==
    IF p.cultivation_progress >= 100 /\ p.realm_index < RealmCount - 1
    THEN Breakthroughs(
             [p EXCEPT !.cultivation_progress = @ - 100,
                       !.realm_index = @ + 1,
                       !.max_hp = CalculateMaxHp(p.realm_index + 1, p.attributes),
                       !.hp = CalculateMaxHp(p.realm_index + 1, p.attributes),
                       !.max_mp = CalculateMaxMp(p.realm_index + 1, p.attributes),
                       !.mp = CalculateMaxMp(p.realm_index + 1, p.attributes)])
    ELSE p

\* add_cultivation(amount): the player afterwards
AddCultivation(p, amount) ==
    LET q == Breakthroughs([p EXCEPT !.cultivation_progress = @ + amount])
    IN  IF q.realm_index >= RealmCount - 1 /\ q.cultivation_progress > 100
        THEN [q EXCEPT !.cultivation_progress = 100]
        ELSE q

\* min(a, b)
Min(a, b) == IF a < b THEN a ELSE b

\* the keys apply_effects_to_player has a branch for
KnownKeys == {"cultivation", "max_hp", "hp", "max_mp", "mp", "random_attribute"}

\* the if/elif chain of apply_effects_to_player with an else branch that
\* reports the key
ApplyKeyReportsUnknown(st, donor, tier, key, value, pick) ==
    [player |-> st.player,
     messages |-> Append(st.messages, [key |-> key, donor |-> donor, tier |-> tier,
                                       value |-> value, note |-> 0])]

\* the if/elif chain of apply_effects_to_player for one (key, value) of
\* effect.effects; st is [player, messages], pick what random.choice
\* returns; a key without a branch falls through
ApplyKey(st, donor, tier, key, value, pick) ==
    LET p == st.player
        msg(note) == [key |-> key, donor |-> donor, tier |-> tier,
                      value |-> value, note |-> note]
    IN  CASE key = "cultivation" ->
                LET q == AddCultivation(p, value)
                IN  [player |-> q,
                     messages |-> Append(st.messages,
                         msg(IF q.realm_index # p.realm_index THEN q.realm_index ELSE 0))]
          [] key = "max_hp" ->
                [player |-> [p EXCEPT !.max_hp = @ + value],
                 messages |-> Append(st.messages, msg(0))]
          [] key = "hp" ->
                LET healed == Min(p.max_hp, p.hp + value) - p.hp
                IN  [player |-> [p EXCEPT !.hp = Min(p.max_hp, p.hp + value)],
                     messages |-> IF healed > 0
                                  THEN Append(st.messages, msg(healed))
                                  ELSE st.messages]
          [] key = "max_mp" ->
                [player |-> [p EXCEPT !.max_mp = @ + value],
                 messages |-> Append(st.messages, msg(0))]
          [] key = "mp" ->
                LET restored == Min(p.max_mp, p.mp + value) - p.mp
                IN  [player |-> [p EXCEPT !.mp = Min(p.max_mp, p.mp + value)],
                     messages |-> IF restored > 0
                                  THEN Append(st.messages, msg(restored))
                                  ELSE st.messages]
          [] key = "random_attribute" ->
                [player |-> [p EXCEPT !.attributes[pick] = @ + value],
                 messages |-> Append(st.messages,
                     [key |-> key, donor |-> donor, tier |-> tier,
                      value |-> value, note |-> pick])]
          [] OTHER -> st

\* "for key, value in effect.effects.items()"
RECURSIVE ApplyKeys(_, _, _, _, _)
ApplyKeys(st, donor, tier, items, pick) ==
    IF items = <<>> THEN st
    ELSE ApplyKeys(ApplyKey(st, donor, tier, Head(items).key, Head(items).value, pick),
                   donor, tier, Tail(items), pick)

\* "for effect_data in effects": picks[i] is what random.choice returns
\* while effects[i] is applied
RECURSIVE ApplyFrom(_, _, _, _)
ApplyFrom(st, effects, picks, i) ==
    IF i > Len(effects) THEN st
    ELSE ApplyFrom(ApplyKeys(st, effects[i].donor, effects[i].effect,
                             GIFT_EFFECTS[effects[i].effect].effects, picks[i]),
                   effects, picks, i + 1)

\* apply_effects_to_player(player, effects): [player, messages]
ApplyEffectsToPlayer(p, effects, picks) ==
    ApplyFrom([player |-> p, messages |-> <<>>], effects, picks, 1)

\* effects[i] draws a random attribute
DrawsAttribute(effect_data) == EffectGet(effect_data.effect, "random_attribute") # 0

\* what random.choice may return during one call: an attribute for every
\* effect that draws one (elsewhere the pick is not used)
Picks(effects) ==
    {picks \in [DOMAIN effects -> Attributes] :
        \A i \in DOMAIN effects : ~DrawsAttribute(effects[i]) => picks[i] = "tipo"}

PlayerInit ==
    /\ player = NoPlayer
    /\ messages = <<>>
    /\ lastEffects = <<>>
    /\ applyCalls = 0

MaxApplyCalls == 1

\* the lengths of the effects lists passed in the runs
EffectCounts == {1, 2}

\* the spiritual roots chosen in the runs: the first and the last
RootChoices == {0, 8}

\* the effects lists passed in the runs: effects of any tiers, all given
\* by "u1"
EffectLists ==
    UNION {[1..n -> [effect : DOMAIN GIFT_EFFECTS, donor : {"u1"}]] : n \in EffectCounts}

\* self.player = Player(...)
NewCharacter(spiritual_root_idx) ==
    /\ player = NoPlayer
    /\ player' = NewPlayer(spiritual_root_idx)
    /\ UNCHANGED <<messages, lastEffects, applyCalls>>
    /\ UNCHANGED <<voteVars, giftVars, boardVars, liveVars, diskVars, listenVars, closeVars, turnVars>>

\* gift_processor.apply_effects_to_player(self.player, effects)
CallApplyEffects(effects, picks) ==
    LET r == ApplyEffectsToPlayer(player, effects, picks)
    IN  /\ player # NoPlayer
        /\ player' = r.player
        /\ messages' = r.messages
        /\ lastEffects' = effects
        /\ applyCalls' = applyCalls + 1
        /\ UNCHANGED <<voteVars, giftVars, boardVars, liveVars, diskVars, listenVars, closeVars, turnVars>>

ApplyStep ==
    \/ \E idx \in RootChoices : NewCharacter(idx)
    \/ \E effects \in EffectLists : \E picks \in Picks(effects) :
          applyCalls < MaxApplyCalls /\ CallApplyEffects(effects, picks)

\* max(a, b)
Max(a, b) == IF a > b THEN a ELSE b

\* player.take_damage(damage), called by LiveGame._apply_effects for a
\* negative "hp_change" of the story
TakeDamage(damage) ==
    /\ player # NoPlayer
    /\ player' = [player EXCEPT !.hp = Max(0, player.hp - damage)]
    /\ UNCHANGED <<messages, lastEffects, applyCalls>>
    /\ UNCHANGED <<voteVars, giftVars, boardVars, liveVars, diskVars, listenVars, closeVars, turnVars>>

\* player.use_mp(amount), called by LiveGame._apply_effects for a negative
\* "mp_change" of the story: nothing is spent when the mp does not suffice
UseMp(amount) ==
    /\ player # NoPlayer
    /\ player' = IF player.mp >= amount
                 THEN [player EXCEPT !.mp = @ - amount]
                 ELSE player
    /\ UNCHANGED <<messages, lastEffects, applyCalls>>
    /\ UNCHANGED <<voteVars, giftVars, boardVars, liveVars, diskVars, listenVars, closeVars, turnVars>>

\* the losses of the story turns in the runs
StoryLosses == {60}

\* the story turns that cost hp or mp, before the effects are applied
StoryStep ==
    \/ \E damage \in StoryLosses : applyCalls < MaxApplyCalls /\ TakeDamage(damage)
    \/ \E amount \in StoryLosses : applyCalls < MaxApplyCalls /\ UseMp(amount)

----------------------------------------------------------------------------
\* LiveGame: the handlers the listeners, the timer thread and the game loop
\* call.  The Chinese words of the rename commands are the tokens "gai",
\* "ming" and "ci", "ming".

\* nobody
NoIdentity == <<"", "">>

NoRenaming == [by |-> NoIdentity, grantee |-> NoIdentity]

\* LiveGame.__init__: no character yet
LiveInit ==
    /\ player_name = <<>>
    /\ held = [d \in Platforms \X Users |-> 0]
    /\ grantee = NoIdentity
    /\ lastRename = NoRenaming

\* str.replace(pat, ""): the occurrences of pat are removed from left to
\* right
RECURSIVE RemoveAll(_, _)
RemoveAll(s, pat) ==
    IF s = <<>> THEN <<>>
    ELSE IF StartsWith(s, pat) THEN RemoveAll(SubSeq(s, Len(pat) + 1, Len(s)), pat)
    ELSE <<Head(s)>> \o RemoveAll(Tail(s), pat)

\* msg.content.startswith("gai ming") or msg.content.startswith("ci ming")
IsRenameCommand(content) ==
    StartsWith(content, <<"gai", "ming">>) \/ StartsWith(content, <<"ci", "ming">>)

\* msg.content.replace("gai ming", "").replace("ci ming", "").strip()
NewName(content) ==
    Strip(RemoveAll(RemoveAll(content, <<"gai", "ming">>), <<"ci", "ming">>))

\* _on_danmaku: the chat event renames the character
Renames(msg) ==
    /\ pending_rename # NoRename
    /\ msg.user_id = pending_rename.user_id
    /\ IsRenameCommand(msg.content)
    /\ NewName(msg.content) # <<>>
    /\ player_name # <<>>

\* the (option key, user_id) pairs of the ballots
BallotPairs(vts) == {p \in (DOMAIN vts) \X Users : p[2] \in vts[p[1]]}

\* "for option_key, voters in self.vote_manager.votes.items(): for user_id,
\* username in voters.items()": the options in order; the model's ballot
\* sets do not keep the order of the voters within one option, so every
\* such order is a possible iteration
BallotOrders(vts) ==
    LET pairs == BallotPairs(vts)
        n == Cardinality(pairs)
    IN  {f \in [1..n -> pairs] :
            /\ \A i, j \in 1..n : i # j => f[i] # f[j]
            /\ \A i, j \in 1..n : i < j => f[i][1] <= f[j][1]}

\* the update_vote_participation calls of _on_vote_end, one per ballot:
\* the platform passed is the literal "unknown"
RECURSIVE RecordParticipation(_, _, _)
RecordParticipation(lb, ballots, winner) ==
    IF ballots = <<>> THEN lb
    ELSE RecordParticipation(
             UpdateVoteParticipation(lb, Head(ballots)[2], "unknown",
                                     Head(ballots)[1], winner),
             Tail(ballots), winner)

\* sum(counts.values())
RECURSIVE SumSeq(_)
SumSeq(seq) == IF seq = <<>> THEN 0 ELSE Head(seq) + SumSeq(Tail(seq))

\* _on_vote_end(winner, counts) on the leaderboard
OnVoteEnd(lb, ballots, winner, counts, t) ==
    LET lb1 == RecordParticipation(lb, ballots, winner)
        total_votes == SumSeq(counts)
        lb2 == UpdateGameStats(lb1, << [key |-> "total_votes", value |-> total_votes,
                                        is_int |-> TRUE] >>)
    IN  AddHistoryEvent(lb2, [type |-> "vote_end", timestamp |-> t])


MaxLiveSessions == 1
MaxLiveGifts == 1

\* the chat texts of the live run: votes and rename commands
LiveContents ==
    {Str(1), Str(2), <<"gai", "ming", "x">>, <<"ci", "ming", "sp">>}

LiveMessages == [platform : Platforms, user_id : Users, content : LiveContents]

\* a gift of 50 yuan, which grants the renaming, and a gift of 5 yuan
LiveGifts ==
    { [platform |-> "bilibili", user_id |-> "u1", gift_count |-> 1, gift_value |-> 5000],
      [platform |-> "douyin", user_id |-> "u2", gift_count |-> 1, gift_value |-> 500] }

\* the votes of the runs of the story turns
TurnMessages == [platform : {"bilibili"}, user_id : Users, content : {Str(1), Str(2)}]

\* LiveGame.__init__: no vote result, no story turn yet
TurnInit ==
    /\ vote_result = 0
    /\ turns = <<>>

\* create_character(name, gender, spiritual_root_idx) with a name that is
\* not blank, and the _generate_story(is_new=True) it ends with
CreateCharacter(name, spiritual_root_idx) ==
    LET lb1 == UpdateGameStats(leaderboard,
                   << [key |-> "character_name", value |-> Strip(name), is_int |-> FALSE] >>)
        lb2 == UpdateGameStats(lb1,
                   << [key |-> "total_stories", value |-> 1, is_int |-> TRUE] >>)
        lb3 == UpdateGameStats(lb2, <<>>)
    IN  /\ Strip(name) # <<>>
        /\ player_name' = Strip(name)
        /\ leaderboard' = lb3
        /\ lbFile' = SaveData(lb3)
        /\ boardOps' = boardOps + 3
        /\ pending_effects' = <<>>
        /\ applied' = applied \o [i \in DOMAIN pending_effects |-> pending_effects[i].seq]
        /\ IF pending_effects # <<>>
           THEN \E picks \in Picks(pending_effects) :
                    LET r == ApplyEffectsToPlayer(NewPlayer(spiritual_root_idx),
                                                  pending_effects, picks)
                    IN  /\ player' = r.player
                        /\ messages' = r.messages
                        /\ lastEffects' = [i \in DOMAIN pending_effects |->
                                              [effect |-> pending_effects[i].effect,
                                               donor |-> pending_effects[i].donor]]
                        /\ applyCalls' = applyCalls + 1
           ELSE /\ player' = NewPlayer(spiritual_root_idx)
                /\ UNCHANGED <<messages, lastEffects, applyCalls>>
        /\ UNCHANGED <<historyCalls, partLog, held, grantee, lastRename>>
        /\ UNCHANGED <<donor_stats, records, pending_rename, saved, effectCalls,
                       giftsDone, lastGift, enqCount, loop>>
        /\ UNCHANGED voteVars
        /\ UNCHANGED <<diskVars, listenVars, closeVars, turnVars>>

\* LiveGame.start_vote with n current options
LiveStartVote(n) ==
    /\ n >= 1
    /\ StartVoteBody(n)
    /\ held' = [d \in Platforms \X Users |-> 0]
    /\ UNCHANGED <<player_name, grantee, lastRename>>
    /\ UNCHANGED <<giftVars, boardVars, restVars>>

\* _on_danmaku(msg)
OnDanmaku(msg) ==
    LET r == ProcessDanmakuResult(voting_active, votes, msg)
        lb == AddHistoryEvent(leaderboard,
                              [type |-> "rename", timestamp |-> historyCalls + 1])
    IN  /\ votes' = r.votes
        /\ IF voting_active
           THEN lastOp' = "process_danmaku" /\ lastRet' = r.ret
           ELSE UNCHANGED <<lastOp, lastRet>>
        /\ held' = IF r.ret # 0
                   THEN [held EXCEPT ![<<msg.platform, msg.user_id>>] = r.ret]
                   ELSE held
        /\ IF Renames(msg)
           THEN /\ player_name' = NewName(msg.content)
                /\ leaderboard' = lb
                /\ lbFile' = SaveData(lb)
                /\ historyCalls' = historyCalls + 1
                /\ pending_rename' = NoRename
                /\ lastRename' = [by |-> <<msg.platform, msg.user_id>>,
                                  grantee |-> grantee]
           ELSE UNCHANGED <<player_name, leaderboard, lbFile, historyCalls,
                            pending_rename, lastRename>>
        /\ UNCHANGED <<voting_active, vote_start_time, vote_callback, timers, now,
                       sessions, fired, listeners>>
        /\ UNCHANGED <<donor_stats, records, pending_effects, saved, effectCalls,
                       giftsDone, lastGift, enqCount, loop, applied>>
        /\ UNCHANGED <<boardOps, partLog, grantee>>
        /\ UNCHANGED restVars

\* _on_gift(msg): process_gift, whose effect callback is _on_gift_effect,
\* then update_contribution
OnGift(gift) ==
    LET effect == DetermineEffect(gift.gift_value * gift.gift_count)
        lb1 == IF effect # 0
               THEN AddHistoryEvent(leaderboard,
                        [type |-> "gift_effect", timestamp |-> historyCalls + 1])
               ELSE leaderboard
        lb2 == UpdateContribution(lb1, gift.user_id, gift.platform,
                                  gift.gift_value * gift.gift_count)
    IN  /\ ProcessGiftBody(gift)
        /\ leaderboard' = lb2
        /\ lbFile' = SaveData(lb2)
        /\ historyCalls' = IF effect # 0 THEN historyCalls + 1 ELSE historyCalls
        /\ boardOps' = boardOps + 1
        /\ grantee' = IF effect # 0 /\ EffectGet(effect, "can_rename") # 0
                      THEN <<gift.platform, gift.user_id>>
                      ELSE grantee
        /\ UNCHANGED <<partLog, player_name, held, lastRename>>
        /\ UNCHANGED voteVars
        /\ UNCHANGED restVars

\* the timer thread of a session wakes while a session is open and calls
\* end_vote, which calls _on_vote_end
VoteTimerEnds(t, ballots) ==
    LET counts == VoteCounts(votes)
        winner == Winner(counts)
        lb == OnVoteEnd(leaderboard, ballots, winner, counts, historyCalls + 1)
    IN  /\ t.pc = "sleep"
        /\ now >= t.due
        /\ voting_active
        /\ timers' = timers \ {t}
        /\ EndVoteBody
        /\ leaderboard' = lb
        /\ lbFile' = SaveData(lb)
        /\ historyCalls' = historyCalls + 1
        /\ boardOps' = boardOps + Len(ballots) + 1
        /\ partLog' = partLog \o
                [i \in DOMAIN ballots |->
                    [key |-> BoardKey(ballots[i][2], "unknown"),
                     won |-> ballots[i][1] = winner]]
        /\ vote_result' = winner
        /\ UNCHANGED liveVars
        /\ UNCHANGED giftVars
        /\ UNCHANGED <<diskVars, listenVars, playerVars, closeVars, turns>>

\* vote_manager.end_vote() called on a VoteManager whose callback is
\* _on_vote_end
LiveEndVote(ballots) ==
    LET counts == VoteCounts(votes)
        winner == Winner(counts)
        lb == OnVoteEnd(leaderboard, ballots, winner, counts, historyCalls + 1)
    IN  /\ vote_callback # 0
        /\ fired < MaxFired
        /\ EndVoteBody
        /\ UNCHANGED timers
        /\ leaderboard' = lb
        /\ lbFile' = SaveData(lb)
        /\ historyCalls' = historyCalls + 1
        /\ boardOps' = boardOps + Len(ballots) + 1
        /\ partLog' = partLog \o
                [i \in DOMAIN ballots |->
                    [key |-> BoardKey(ballots[i][2], "unknown"),
                     won |-> ballots[i][1] = winner]]
        /\ vote_result' = winner
        /\ UNCHANGED liveVars
        /\ UNCHANGED giftVars
        /\ UNCHANGED <<diskVars, listenVars, playerVars, closeVars, turns>>

\* process_vote_result() while self.vote_result is set, and the
\* _generate_story(choice_idx=...) it returns; the storyteller's turn
\* carries no effects of its own in the runs
ProcessVoteResult ==
    LET choice_idx == vote_result - 1
        lb1 == UpdateGameStats(leaderboard,
                   << [key |-> "total_stories", value |-> 1, is_int |-> TRUE] >>)
        lb2 == UpdateGameStats(lb1, <<>>)
    IN  /\ vote_result # 0
        /\ player # NoPlayer
        /\ vote_result' = 0
        /\ turns' = Append(turns, [session |-> sessions, choice_idx |-> choice_idx])
        /\ leaderboard' = lb2
        /\ lbFile' = SaveData(lb2)
        /\ boardOps' = boardOps + 2
        /\ pending_effects' = <<>>
        /\ applied' = applied \o [i \in DOMAIN pending_effects |-> pending_effects[i].seq]
        /\ IF pending_effects # <<>>
           THEN \E picks \in Picks(pending_effects) :
                    LET r == ApplyEffectsToPlayer(player, pending_effects, picks)
                    IN  /\ player' = r.player
                        /\ messages' = r.messages
                        /\ lastEffects' = [i \in DOMAIN pending_effects |->
                                              [effect |-> pending_effects[i].effect,
                                               donor |-> pending_effects[i].donor]]
                        /\ applyCalls' = applyCalls + 1
           ELSE UNCHANGED <<player, messages, lastEffects, applyCalls>>
        /\ UNCHANGED <<historyCalls, partLog>>
        /\ UNCHANGED liveVars
        /\ UNCHANGED <<donor_stats, records, pending_rename, saved, effectCalls,
                       giftsDone, lastGift, enqCount, loop>>
        /\ UNCHANGED voteVars
        /\ UNCHANGED <<diskVars, listenVars, closeVars>>

\* gifts of 50 yuan, each granting the renaming, from two donors, and a
\* gift of 5 yuan
GrantGifts ==
    { [platform |-> "bilibili", user_id |-> "u1", gift_count |-> 1, gift_value |-> 5000],
      [platform |-> "douyin", user_id |-> "u2", gift_count |-> 1, gift_value |-> 5000],
      [platform |-> "douyin", user_id |-> "u2", gift_count |-> 1, gift_value |-> 500] }

\* the gifts that grant the renaming and the chat that may use the grant
GrantStep ==
    \/ player_name = <<>> /\ CreateCharacter(<<"a">>, 0)
    \/ \E gift \in GrantGifts : giftsDone < MaxGifts /\ OnGift(gift)
    \/ \E msg \in LiveMessages : OnDanmaku(msg)

MaxContribGifts == 2

\* the gift events alone, each handled by _on_gift
ContribStep ==
    \E gift \in GiftEvents : giftsDone < MaxContribGifts /\ OnGift(gift)

\* the sessions of a game: LiveGame.start_vote needs the options of a
\* story, hence a character; the sessions are closed by their timers and by
\* end_vote calls, the display polls process_vote_result, and gifts arrive
\* in between
TurnStep ==
    \/ player_name = <<>> /\ CreateCharacter(<<"a">>, 0)
    \/ sessions < MaxLiveSessions /\ player_name # <<>> /\ LiveStartVote(2)
    \/ \E msg \in TurnMessages : OnDanmaku(msg)
    \/ \E gift \in LiveGifts : giftsDone < MaxLiveGifts /\ OnGift(gift)
    \/ \E t \in timers, ballots \in BallotOrders(votes) : VoteTimerEnds(t, ballots)
    \/ \E ballots \in BallotOrders(votes) : LiveEndVote(ballots)
    \/ ProcessVoteResult
    \/ Tick

LiveStep ==
    \/ player_name = <<>> /\ CreateCharacter(<<"a">>, 0)
    \/ sessions < MaxLiveSessions /\ LiveStartVote(2)
    \/ \E msg \in LiveMessages : OnDanmaku(msg)
    \/ \E gift \in LiveGifts : giftsDone < MaxLiveGifts /\ OnGift(gift)
    \/ \E t \in timers, ballots \in BallotOrders(votes) : VoteTimerEnds(t, ballots)
    \/ Tick

----------------------------------------------------------------------------
\* The storing operations on a disk whose writes may fail

\* what "with open(self.save_file, 'w') as f: json.dump(data, f)" may do:
\* write the file; raise from open and leave the file as it was; raise
\* from the dump after open has truncated the file
DiskOutcomes == {"written", "refused", "torn"}

\* GiftProcessor._save_records with that outcome; a torn file loads as an
\* empty one does (_load_records prints the error and keeps the defaults)
WriteRecords(outcome, recs, stats) ==
    CASE outcome = "written" -> SaveFile(recs, stats)
      [] outcome = "refused" -> saved
      [] outcome = "torn"    -> [exists |-> TRUE, records |-> <<>>, donor_stats |-> <<>>]

\* Leaderboard._save with that outcome; a torn file loads as no file does
\* (_load prints the error and keeps the defaults)
WriteBoard(outcome, lb) ==
    CASE outcome = "written" -> SaveData(lb)
      [] outcome = "refused" -> lbFile
      [] outcome = "torn"    -> NoFile

DiskInit == raised = FALSE

MaxDiskOps == 3

\* a gift of 5 yuan, which triggers a tier, and one below every tier
DiskGifts ==
    { [platform |-> "bilibili", user_id |-> "u1", gift_count |-> 1, gift_value |-> 500],
      [platform |-> "bilibili", user_id |-> "u1", gift_count |-> 1, gift_value |-> 5] }

DiskOps == giftsDone + boardOps + historyCalls

\* process_gift(gift): the write of line 169 comes after the changes in
\* memory and before the effect callbacks; nothing catches what it raises
ProcessGiftOnDisk(gift, outcome) ==
    LET total_value == gift.gift_value * gift.gift_count
        stats == UpdateDonorStats(donor_stats, gift, total_value, giftsDone + 1)
        effect == DetermineEffect(total_value)
        recs == Append(records,
                    [user_id |-> gift.user_id, platform |-> gift.platform,
                     gift_count |-> gift.gift_count, gift_value |-> total_value,
                     effect_applied |-> GIFT_EFFECTS[effect].id])
    IN  /\ giftsDone' = giftsDone + 1
        /\ lastGift' = gift
        /\ donor_stats' = stats
        /\ IF effect # 0
           THEN /\ records' = recs
                /\ pending_effects' = Append(pending_effects,
                        [effect |-> effect, donor |-> gift.user_id,
                         value |-> total_value, seq |-> enqCount + 1])
                /\ enqCount' = enqCount + 1
                /\ pending_rename' =
                        IF EffectGet(effect, "can_rename") # 0
                        THEN [donor |-> gift.user_id, user_id |-> gift.user_id]
                        ELSE pending_rename
                /\ saved' = WriteRecords(outcome, recs, stats)
                /\ IF outcome = "written"
                   THEN effectCalls' = effectCalls + 1 /\ raised' = FALSE
                   ELSE effectCalls' = effectCalls /\ raised' = TRUE
           ELSE /\ raised' = FALSE
                /\ UNCHANGED <<records, pending_effects, enqCount, pending_rename,
                               saved, effectCalls>>
        /\ UNCHANGED <<loop, applied>>
        /\ UNCHANGED <<voteVars, boardVars, liveVars, listenVars, playerVars, closeVars, turnVars>>

\* update_contribution: the change in memory, then self._save()
UpdateContributionOnDisk(user_id, platform, value, outcome) ==
    LET lb == UpdateContribution(leaderboard, user_id, platform, value)
    IN  /\ leaderboard' = lb
        /\ lbFile' = WriteBoard(outcome, lb)
        /\ raised' = (outcome # "written")
        /\ boardOps' = boardOps + 1
        /\ UNCHANGED <<historyCalls, partLog>>
        /\ UNCHANGED <<voteVars, giftVars, liveVars, listenVars, playerVars, closeVars, turnVars>>

\* update_vote_participation: the change in memory, then self._save()
UpdateVoteParticipationOnDisk(user_id, platform, voted_option, winning_option, outcome) ==
    LET lb == UpdateVoteParticipation(leaderboard, user_id, platform,
                                      voted_option, winning_option)
    IN  /\ leaderboard' = lb
        /\ lbFile' = WriteBoard(outcome, lb)
        /\ raised' = (outcome # "written")
        /\ boardOps' = boardOps + 1
        /\ partLog' = Append(partLog, [key |-> BoardKey(user_id, platform),
                                       won |-> voted_option = winning_option])
        /\ UNCHANGED historyCalls
        /\ UNCHANGED <<voteVars, giftVars, liveVars, listenVars, playerVars, closeVars, turnVars>>

\* add_history_event: the change in memory, then self._save()
AddHistoryEventOnDisk(event_type, outcome) ==
    LET lb == AddHistoryEvent(leaderboard,
                              [type |-> event_type, timestamp |-> historyCalls + 1])
    IN  /\ leaderboard' = lb
        /\ lbFile' = WriteBoard(outcome, lb)
        /\ raised' = (outcome # "written")
        /\ historyCalls' = historyCalls + 1
        /\ UNCHANGED <<boardOps, partLog>>
        /\ UNCHANGED <<voteVars, giftVars, liveVars, listenVars, playerVars, closeVars, turnVars>>

DiskStep ==
    \/ \E gift \in DiskGifts, outcome \in DiskOutcomes :
          DiskOps < MaxDiskOps /\ ProcessGiftOnDisk(gift, outcome)
    \/ \E outcome \in DiskOutcomes :
          DiskOps < MaxDiskOps /\ UpdateContributionOnDisk("u1", "bilibili", 500, outcome)
    \/ \E won \in 1..2, outcome \in DiskOutcomes :
          DiskOps < MaxDiskOps /\ UpdateVoteParticipationOnDisk("u1", "bilibili", 1, won, outcome)
    \/ \E outcome \in DiskOutcomes :
          DiskOps < MaxDiskOps /\ AddHistoryEventOnDisk("rename", outcome)

----------------------------------------------------------------------------
\* DouyinDanmakuListener: the callbacks of BaseDanmakuListener, the thread
\* that start() creates and stop()

MaxPayloads == 2
MaxAttempts == 3

\* the elements of a sequence
Range(seq) == {seq[i] : i \in DOMAIN seq}

\* the callbacks a client registers; "c2" raises an Exception when called
Callbacks == {"c1", "c2"}

CallbackRaises(cb) == cb = "c2"

\* what the server sends over the connection: a chat event, a gift event,
\* an object of another type, text that is not JSON, and JSON that is not
\* an object
PayloadKinds == {"danmaku", "gift", "other", "garbage", "array"}

\* json.loads(data)
JsonLoads(payload) ==
    IF payload = "garbage"
    THEN [ok |-> FALSE, is_dict |-> FALSE, type |-> ""]
    ELSE [ok |-> TRUE,
          is_dict |-> payload # "array",
          type |-> IF payload = "array" THEN "" ELSE payload]

\* self._handle_message(json.loads(data)) raises: json.loads rejects the
\* text, or data.get is called on a value that is not a dict
HandleRaises(payload) ==
    \/ ~JsonLoads(payload).ok
    \/ ~JsonLoads(payload).is_dict

\* the list _handle_message emits the event to: msg_type "danmaku" goes
\* to _emit_danmaku, "gift" to _emit_gift, any other type is ignored
EmitList(payload, dcbs, gcbs) ==
    LET msg_type == JsonLoads(payload).type
    IN  IF msg_type = "danmaku" THEN dcbs
        ELSE IF msg_type = "gift" THEN gcbs
        ELSE <<>>

\* _handle_message builds an event and emits it
IsEvent(payload) ==
    /\ ~HandleRaises(payload)
    /\ JsonLoads(payload).type \in {"danmaku", "gift"}

\* _emit_danmaku / _emit_gift without the try of lines 81 and 89
RECURSIVE EmitUntilRaise(_, _)
EmitUntilRaise(callbacks, ev) ==
    IF callbacks = <<>> THEN <<>>
    ELSE IF CallbackRaises(Head(callbacks))
         THEN << [cb |-> Head(callbacks), ev |-> ev] >>
         ELSE << [cb |-> Head(callbacks), ev |-> ev] >> \o EmitUntilRaise(Tail(callbacks), ev)

\* _emit_danmaku / _emit_gift: "for callback in callbacks: try: callback(msg)
\* except Exception: print(...)": what a callback raises is caught, and
\* the loop goes on; the invocations made, in order
RECURSIVE Emit(_, _)
Emit(callbacks, ev) ==
    IF callbacks = <<>> THEN <<>>
    ELSE << [cb |-> Head(callbacks), ev |-> ev] >> \o Emit(Tail(callbacks), ev)

\* a counter of the model stops counting at MaxAttempts
Count(n) == IF n < MaxAttempts THEN n + 1 ELSE n

\* the outer handler of _listen after websockets.connect raised: "if
\* self.running: await asyncio.sleep(5)", without the wait
AfterFailureNoWait(run) == "outer"

\* the outer handler of _listen after websockets.connect raised: "if
\* self.running: await asyncio.sleep(5)", then the outer loop test
AfterFailure(run) == IF run THEN "backoff" ELSE "outer"

\* "while self.running:" of the outer loop, never leaving
OuterTestAlways(run) == "connect"

\* "while self.running:" of the outer loop: connect, or return from _listen
OuterTest(run) == IF run THEN "connect" ELSE "done"

\* BaseDanmakuListener.__init__ and DouyinDanmakuListener.__init__
ListenInit ==
    /\ running = FALSE
    /\ danmaku_callbacks = <<>>
    /\ gift_callbacks = <<>>
    /\ worker = "none"
    /\ stopping = FALSE
    /\ observed = FALSE
    /\ sentLog = <<>>
    /\ wire = <<>>
    /\ emitted = <<>>
    /\ delivered = <<>>
    /\ attempts = 0
    /\ failures = 0
    /\ backoffs = 0

nonListenVars == <<voteVars, giftVars, boardVars, liveVars, diskVars, playerVars, closeVars, turnVars>>

\* on_danmaku(callback)
RegisterDanmaku(cb) ==
    /\ danmaku_callbacks' = Append(danmaku_callbacks, cb)
    /\ UNCHANGED <<running, gift_callbacks, worker, stopping, observed, sentLog,
                   wire, emitted, delivered, attempts, failures, backoffs>>
    /\ UNCHANGED nonListenVars

\* on_gift(callback)
RegisterGift(cb) ==
    /\ gift_callbacks' = Append(gift_callbacks, cb)
    /\ UNCHANGED <<running, danmaku_callbacks, worker, stopping, observed, sentLog,
                   wire, emitted, delivered, attempts, failures, backoffs>>
    /\ UNCHANGED nonListenVars

\* start(), with websockets installed
ListenerStart ==
    /\ worker = "none"
    /\ running' = TRUE
    /\ worker' = "boot"
    /\ UNCHANGED <<danmaku_callbacks, gift_callbacks, stopping, observed, sentLog,
                   wire, emitted, delivered, attempts, failures, backoffs>>
    /\ UNCHANGED nonListenVars

\* _run_async: self._loop is set and the loop begins to run _listen
RunAsync ==
    /\ worker = "boot"
    /\ worker' = "outer"
    /\ UNCHANGED <<running, danmaku_callbacks, gift_callbacks, stopping, observed,
                   sentLog, wire, emitted, delivered, attempts, failures, backoffs>>
    /\ UNCHANGED nonListenVars

\* _listen: the outer "while self.running:" and the call of
\* websockets.connect
OuterCheck ==
    /\ worker = "outer"
    /\ worker' = OuterTest(running)
    /\ attempts' = IF OuterTest(running) = "connect" THEN Count(attempts) ELSE attempts
    /\ observed' = (observed \/ ~running)
    /\ UNCHANGED <<running, danmaku_callbacks, gift_callbacks, stopping, sentLog,
                   wire, emitted, delivered, failures, backoffs>>
    /\ UNCHANGED nonListenVars

\* websockets.connect raises: the outer handler prints and, if
\* self.running, begins the backoff wait
ConnectFails ==
    /\ worker = "connect"
    /\ worker' = AfterFailure(running)
    /\ failures' = Count(failures)
    /\ backoffs' = IF AfterFailure(running) = "backoff" THEN Count(backoffs) ELSE backoffs
    /\ UNCHANGED <<running, danmaku_callbacks, gift_callbacks, stopping, observed,
                   sentLog, wire, emitted, delivered, attempts>>
    /\ UNCHANGED nonListenVars

\* websockets.connect returns an open connection
ConnectSucceeds ==
    /\ worker = "connect"
    /\ worker' = "inner"
    /\ wire' = <<>>
    /\ failures' = 0
    /\ backoffs' = 0
    /\ UNCHANGED <<running, danmaku_callbacks, gift_callbacks, stopping, observed,
                   sentLog, emitted, delivered, attempts>>
    /\ UNCHANGED nonListenVars

\* the inner "while self.running:": wait for a payload, or leave the
\* "async with", which closes the connection
InnerCheck ==
    /\ worker = "inner"
    /\ worker' = IF running THEN "recv" ELSE "outer"
    /\ wire' = IF running THEN wire ELSE <<>>
    /\ observed' = (observed \/ ~running)
    /\ UNCHANGED <<running, danmaku_callbacks, gift_callbacks, stopping, sentLog,
                   emitted, delivered, attempts, failures, backoffs>>
    /\ UNCHANGED nonListenVars

\* asyncio.wait_for(ws.recv(), timeout=1.0) raises TimeoutError: continue
RecvTimeout ==
    /\ worker = "recv"
    /\ wire = <<>>
    /\ worker' = "inner"
    /\ UNCHANGED <<running, danmaku_callbacks, gift_callbacks, stopping, observed,
                   sentLog, wire, emitted, delivered, attempts, failures, backoffs>>
    /\ UNCHANGED nonListenVars

\* ws.recv() returns the next payload and _handle_message(json.loads(data))
\* runs: an event goes to the callbacks; an Exception is printed and
\* "break" leaves the inner loop and the "async with", which closes the
\* connection with what still waits on it
RecvPayload ==
    /\ worker = "recv"
    /\ wire # <<>>
    /\ LET ev == Head(wire)
           payload == sentLog[ev]
       IN  IF HandleRaises(payload)
           THEN /\ worker' = "outer"
                /\ wire' = <<>>
                /\ UNCHANGED <<emitted, delivered>>
           ELSE /\ worker' = "inner"
                /\ wire' = Tail(wire)
                /\ emitted' = IF IsEvent(payload) THEN Append(emitted, ev) ELSE emitted
                /\ delivered' = delivered \o
                        Emit(EmitList(payload, danmaku_callbacks, gift_callbacks), ev)
    /\ UNCHANGED <<running, danmaku_callbacks, gift_callbacks, stopping, observed,
                   sentLog, attempts, failures, backoffs>>
    /\ UNCHANGED nonListenVars

\* the server closes the connection: once nothing waits on it ws.recv()
\* raises ConnectionClosed, an Exception: print and break
ConnectionLost ==
    /\ worker = "recv"
    /\ wire = <<>>
    /\ worker' = "outer"
    /\ UNCHANGED <<running, danmaku_callbacks, gift_callbacks, stopping, observed,
                   sentLog, wire, emitted, delivered, attempts, failures, backoffs>>
    /\ UNCHANGED nonListenVars

\* asyncio.sleep(5) returns
BackoffEnds ==
    /\ worker = "backoff"
    /\ worker' = "outer"
    /\ UNCHANGED <<running, danmaku_callbacks, gift_callbacks, stopping, observed,
                   sentLog, wire, emitted, delivered, attempts, failures, backoffs>>
    /\ UNCHANGED nonListenVars

\* stop(): self.running = False, and self._loop.stop is handed to the event
\* loop if _run_async has set self._loop
ListenerStop ==
    /\ running
    /\ running' = FALSE
    /\ stopping' = (worker \notin {"none", "boot"})
    /\ UNCHANGED <<danmaku_callbacks, gift_callbacks, worker, observed, sentLog,
                   wire, emitted, delivered, attempts, failures, backoffs>>
    /\ UNCHANGED nonListenVars

\* the event loop runs loop.stop while _listen waits in an await:
\* run_until_complete raises RuntimeError and the thread ends
LoopStops ==
    /\ stopping
    /\ worker \in {"connect", "recv", "backoff"}
    /\ worker' = "done"
    /\ wire' = <<>>
    /\ UNCHANGED <<running, danmaku_callbacks, gift_callbacks, stopping, observed,
                   sentLog, emitted, delivered, attempts, failures, backoffs>>
    /\ UNCHANGED nonListenVars

\* the server sends a payload over the open connection
ServerSends(payload) ==
    /\ worker \in {"inner", "recv"}
    /\ Len(sentLog) < MaxPayloads
    /\ sentLog' = Append(sentLog, payload)
    /\ wire' = Append(wire, Len(sentLog) + 1)
    /\ UNCHANGED <<running, danmaku_callbacks, gift_callbacks, worker, stopping,
                   observed, emitted, delivered, attempts, failures, backoffs>>
    /\ UNCHANGED nonListenVars

\* the steps of the listener's thread
WorkerStep ==
    \/ RunAsync
    \/ OuterCheck
    \/ ConnectFails
    \/ ConnectSucceeds
    \/ InnerCheck
    \/ RecvTimeout
    \/ RecvPayload
    \/ ConnectionLost
    \/ BackoffEnds
    \/ LoopStops

Registered == Range(danmaku_callbacks) \cup Range(gift_callbacks)

\* the steps of the client, which registers each callback once, and of the
\* server
ListenEnvStep ==
    \/ \E cb \in Callbacks \ Registered : RegisterDanmaku(cb)
    \/ \E cb \in Callbacks \ Registered : RegisterGift(cb)
    \/ ListenerStart
    \/ ListenerStop
    \/ \E payload \in PayloadKinds : ServerSends(payload)

\* the same with no callback registered
BareEnvStep ==
    \/ ListenerStart
    \/ ListenerStop
    \/ \E payload \in PayloadKinds : ServerSends(payload)

----------------------------------------------------------------------------
\* Specifications

Init ==
    /\ VoteInit /\ GiftInit /\ BoardInit /\ LiveInit /\ DiskInit /\ ListenInit
    /\ PlayerInit /\ CloseInit /\ TurnInit

NextVote == VoteStep

NextVoteSeq == VoteSeqStep

NextVoteConc == VoteConcStep

NextClose == CloseStep

NextVoteMany == VoteManyStep

NextGift == GiftStep

NextRank == RankStep

NextBoard == BoardStep

NextHistory == HistoryStep

NextLive == LiveStep

NextGrant == GrantStep

NextContrib == ContribStep

NextTurn == TurnStep

NextDisk == DiskStep

NextApply == ApplyStep

NextStory == ApplyStep \/ StoryStep

NextListen == WorkerStep \/ ListenEnvStep

NextListenBare == WorkerStep \/ BareEnvStep

\* The VoteManager driven by calls that do not overlap, and its timer threads
Spec == Init /\ [][NextVote]_vars

\* The same, the clock advancing and the timer threads being scheduled
SpecVoteFair == Init /\ [][NextVote]_vars /\ WF_vars(Tick) /\ WF_vars(TimerStep)

\* The VoteManager with process_danmaku called from the two listener threads
\* at once (the timer threads stay asleep)
SpecVoteSeq == Init /\ [][NextVoteSeq]_vars

SpecClose == Init /\ [][NextClose]_vars

SpecVoteConc == Init /\ [][NextVoteConc]_vars

\* The VoteManager with sessions of ten options
SpecVoteMany == Init /\ [][NextVoteMany]_vars

\* The GiftProcessor fed by the listeners, and the game loop consuming the
\* pending effects
SpecGift == Init /\ [][NextGift]_vars

\* The GiftProcessor receiving up to three gifts from two donors
SpecRank == Init /\ [][NextRank]_vars

\* The Leaderboard called directly, and program restarts
SpecBoard == Init /\ [][NextBoard]_vars

\* The Leaderboard with a history log longer than what _save writes
SpecHistory == Init /\ [][NextHistory]_vars

\* The LiveGame: chat events and gifts from the listeners, one vote session
\* ended by its timer, the results going to the Leaderboard
SpecTurn == Init /\ [][NextTurn]_vars

SpecContrib == Init /\ [][NextContrib]_vars

SpecGrant == Init /\ [][NextGrant]_vars

SpecLive == Init /\ [][NextLive]_vars

\* The storing operations of the GiftProcessor and the Leaderboard called
\* directly, each write to the disk succeeding or failing
SpecDisk == Init /\ [][NextDisk]_vars

\* A Player and apply_effects_to_player called on it with lists of effects
SpecApply == Init /\ [][NextApply]_vars

\* The DouyinDanmakuListener: its thread, the client that registers
\* callbacks, starts and stops it, and the server
\* the effects applied to a player whom the story has cost hp or mp
SpecStory == Init /\ [][NextStory]_vars

SpecListen == Init /\ [][NextListen]_vars

\* The listener with no callback registered, its thread being scheduled
\* again and again (its waits end, the event loop runs what is handed to it)
SpecListenFair == Init /\ [][NextListenBare]_vars /\ WF_vars(WorkerStep)

----------------------------------------------------------------------------
\* Claims about the VoteManager

\* the option keys whose ballot set holds user u
BallotsOf(u) == {k \in DOMAIN votes : u \in votes[k]}

\* C1: for one vote session, however often end_vote is called (by the timer
\* thread or explicitly), the session's onResolved callback is invoked at
\* most once.
C1_ResolvedOncePerSession == fired <= 1

\* C2: in every state reached by process_danmaku calls that do not overlap,
\* each voter is a member of at most one option's ballot set (a vote for
\* another option moves the ballot).
C2_OneBallotPerVoter == \A u \in Users : Cardinality(BallotsOf(u)) <= 1

\* a voter holds a ballot that the last process_danmaku call recorded, while
\* another option's ballot set is in use as well
C2_Witness ==
    /\ voting_active
    /\ lastOp = "process_danmaku"
    /\ lastRet > 1
    /\ votes[lastRet] # {}
    /\ \E k \in DOMAIN votes : k # lastRet /\ votes[k] # {}

\* C3: a start_vote call made while a session is open is rejected: it leaves
\* the ballot sets, the start time, the callback and the set of timers as
\* they are and returns a sentinel instead of the duration.
C3_StartWhileOpenRejected ==
    [][(voting_active /\ sessions' = sessions + 1) =>
          /\ votes' = votes
          /\ vote_start_time' = vote_start_time
          /\ vote_callback' = vote_callback
          /\ timers' = timers
          /\ lastRet' # VoteDuration]_vars

\* C4: the winner end_vote reports has the highest ballot count, every
\* option before it has strictly fewer ballots (ties go to the lowest
\* ordinal), and with no ballot at all it is option 1; the tally 3, 5, 1
\* gives option 2.
C4_WinnerRule ==
    /\ lastOp = "end_vote" =>
          LET c == VoteCounts(votes)
              w == lastRet
          IN  IF c = <<>> THEN w = 1
              ELSE /\ w \in DOMAIN c
                   /\ \A k \in DOMAIN c : c[k] <= c[w]
                   /\ \A k \in DOMAIN c : k < w => c[k] < c[w]
                   /\ (\A k \in DOMAIN c : c[k] = 0) => w = 1
    /\ Winner(<<3, 5, 1>>) = 2

\* end_vote has reported the earlier of two options tied at the top
C4_Witness ==
    /\ lastOp = "end_vote"
    /\ \E a, b \in DOMAIN votes :
          /\ a < b
          /\ lastRet = a
          /\ Cardinality(votes[a]) = Cardinality(votes[b])
          /\ Cardinality(votes[a]) >= 1

\* C8: with process_danmaku running in two listener threads at once, every
\* voter is still in at most one ballot set and no call fails half-way.
C8_BallotsAtomic ==
    /\ \A u \in Users : Cardinality(BallotsOf(u)) <= 1
    /\ lastRet # Raised

\* C10: a process_danmaku call made while no session is open changes no
\* ballot set and returns None.  (Written as "B or not A" for "A => B", so
\* that the cheap part is evaluated first.)
C10_NoOpUnlessOpen ==
    [][\/ votes' = votes /\ lastRet' = 0
       \/ voting_active
       \/ ~(\E msg \in Messages : ProcessDanmaku(msg))]_vars

\* a chat event was handled after the session, which holds ballots, closed
C10_Witness ==
    /\ ~voting_active
    /\ sessions >= 1
    /\ lastOp = "process_danmaku"
    /\ lastRet = 0
    /\ \E k \in DOMAIN votes : votes[k] # {}

\* C12: a process_danmaku call that records a ballot records it for the
\* first option, in option order, that has a pattern equal to the text or a
\* prefix of it, whatever ballot the voter holds already.
C12_FirstMatchWins ==
    [][\A msg \in ManyMessages :
          (voting_active /\ ProcessDanmaku(msg) /\ lastRet' # 0) =>
              lastRet' = SetMin(MatchingKeys(Len(votes), Strip(msg.content)))]_vars

----------------------------------------------------------------------------
\* Claims about the GiftProcessor

\* the tiers a gift of total value v reaches
Qualifying(v) == {i \in DOMAIN GIFT_EFFECTS : GIFT_EFFECTS[i].min_value <= v}

\* tier i has the greatest min_value among the tiers v reaches
IsGreatestQualifying(i, v) ==
    /\ i \in Qualifying(v)
    /\ \A j \in Qualifying(v) : GIFT_EFFECTS[j].min_value <= GIFT_EFFECTS[i].min_value

\* total values around every threshold of the table
ProbeValues ==
    UNION {{GIFT_EFFECTS[i].min_value - 1, GIFT_EFFECTS[i].min_value,
            GIFT_EFFECTS[i].min_value + 1} : i \in DOMAIN GIFT_EFFECTS}

TotalValue(gift) == gift.gift_value * gift.gift_count

\* _determine_effect picks a tier of greatest min_value for every probe
DetermineEffectAtProbes ==
    \A v \in ProbeValues :
        IF Qualifying(v) = {} THEN DetermineEffect(v) = 0
        ELSE IsGreatestQualifying(DetermineEffect(v), v)

\* C5: a process_gift call appends exactly one pending effect when the
\* gift's total value reaches some tier, and that effect's tier has the
\* greatest min_value not exceeding the total value; _determine_effect
\* picks such a tier for every value around the thresholds.
C5_SingleGreatestTier ==
    [][/\ DetermineEffectAtProbes
       /\ (giftsDone' = giftsDone + 1 /\ Qualifying(TotalValue(lastGift')) # {}) =>
             /\ Len(pending_effects') = Len(pending_effects) + 1
             /\ SubSeq(pending_effects', 1, Len(pending_effects)) = pending_effects
             /\ LET e == pending_effects'[Len(pending_effects')]
                IN  /\ IsGreatestQualifying(e.effect, TotalValue(lastGift'))
                    /\ e.value = TotalValue(lastGift')]_vars

\* one gift that reaches three tiers has queued the single effect of the
\* highest of them
C5_Witness ==
    /\ giftsDone = 1
    /\ TotalValue(lastGift) = 1000
    /\ Len(pending_effects) = 1
    /\ pending_effects[1].value = 1000
    /\ GIFT_EFFECTS[pending_effects[1].effect].id = "cultivation_large"
    /\ Cardinality(Qualifying(1000)) > 1

\* C6: a process_gift call for a gift below every tier appends no record,
\* queues no effect, invokes no effect callback and grants no rename, and
\* adds the gift's total value and unit count to the donor's statistics.
C6_BelowAllTiers ==
    [][(giftsDone' = giftsDone + 1 /\ Qualifying(TotalValue(lastGift')) = {}) =>
          LET gift == lastGift'
              old == DonorIndex(donor_stats, DonorKey(gift))
              new == DonorIndex(donor_stats', DonorKey(gift))
          IN  /\ records' = records
              /\ pending_effects' = pending_effects
              /\ effectCalls' = effectCalls
              /\ pending_rename' = pending_rename
              /\ new # 0
              /\ donor_stats'[new].total_value =
                     (IF old = 0 THEN 0 ELSE donor_stats[old].total_value)
                     + TotalValue(gift)
              /\ donor_stats'[new].total_gifts =
                     (IF old = 0 THEN 0 ELSE donor_stats[old].total_gifts)
                     + gift.gift_count]_vars

\* a donor's statistics show gifts although nothing was ever triggered
C6_Witness ==
    /\ records = <<>>
    /\ enqCount = 0
    /\ effectCalls = 0
    /\ lastGift # NoGift
    /\ Qualifying(TotalValue(lastGift)) = {}
    /\ \E i \in DOMAIN donor_stats :
          donor_stats[i].total_value = 5 /\ donor_stats[i].total_gifts = 3

\* C7: after every process_gift call the save file holds the DonorStats
\* that are in memory.
C7_StatsPersisted ==
    giftsDone >= 1 => (saved.exists /\ saved.donor_stats = donor_stats)

\* how often effect number n occurs in a sequence of effect numbers
Occurrences(seq, n) == Cardinality({i \in DOMAIN seq : seq[i] = n})

PendingSeqs == [i \in DOMAIN pending_effects |-> pending_effects[i].seq]

\* C9: every effect process_gift queued is either still pending or was
\* applied to the player, exactly once, and the effects were applied in
\* the order they were queued.
C9_EffectsAppliedOnce ==
    /\ \A n \in 1..enqCount :
          Occurrences(applied, n) + Occurrences(PendingSeqs, n) = 1
    /\ \A i, j \in DOMAIN applied : i < j => applied[i] < applied[j]

----------------------------------------------------------------------------
\* Further claims about the GiftProcessor

\* total_value of the donor's statistics, 0 without statistics
TotalOf(stats, key) ==
    IF DonorIndex(stats, key) = 0 THEN 0 ELSE stats[DonorIndex(stats, key)].total_value

\* a gift of the given total value from bilibili/u1
OneGift(value) ==
    [platform |-> "bilibili", user_id |-> "u1", gift_count |-> 1, gift_value |-> value]

\* gifts of 2 and 8 yuan from one donor: the total is 10 yuan, the tiers
\* are those of min_value 1 and 5, and 10 yuan alone would reach another
TwoThenEight ==
    LET s1 == UpdateDonorStats(<<>>, OneGift(200), 200, 1)
        s2 == UpdateDonorStats(s1, OneGift(800), 800, 2)
    IN  /\ TotalOf(s2, DonorKey(OneGift(800))) = 1000
        /\ GIFT_EFFECTS[DetermineEffect(200)].min_value = 100
        /\ GIFT_EFFECTS[DetermineEffect(800)].min_value = 500
        /\ GIFT_EFFECTS[DetermineEffect(1000)].min_value = 1000

\* C13: a process_gift call adds the gift's total value to the donor's
\* total_value and leaves the other donors' totals alone, so that
\* total_value is the sum of the donor's gifts; the tier it queues is the
\* one the gift's own total value reaches, whatever the donor's total is.
C13_OwnValueDecidesTier ==
    [][/\ TwoThenEight
       /\ giftsDone' = giftsDone + 1 =>
             LET gift == lastGift'
                 own == TotalValue(gift)
             IN  /\ \A d \in Platforms \X Users :
                       TotalOf(donor_stats', d) =
                           TotalOf(donor_stats, d) + (IF d = DonorKey(gift) THEN own ELSE 0)
                 /\ IF Qualifying(own) = {}
                    THEN pending_effects' = pending_effects
                    ELSE /\ pending_effects' # <<>>
                         /\ LET e == pending_effects'[Len(pending_effects')]
                            IN  /\ e.value = own
                                /\ GIFT_EFFECTS[e.effect].min_value <= own
                                /\ \A j \in Qualifying(own) :
                                      GIFT_EFFECTS[j].min_value <=
                                          GIFT_EFFECTS[e.effect].min_value]_vars

\* a donor's second gift of 5 yuan has queued the 5 yuan tier although the
\* donor's total has reached the 10 yuan tier
C13_Witness ==
    /\ giftsDone = 2
    /\ TotalValue(lastGift) = 500
    /\ TotalOf(donor_stats, DonorKey(lastGift)) = 1000
    /\ pending_effects # <<>>
    /\ GIFT_EFFECTS[pending_effects[Len(pending_effects)].effect].min_value = 500
    /\ GIFT_EFFECTS[DetermineEffect(1000)].min_value = 1000

\* C14: the contribution_rank fields of the donors are a permutation of
\* 1..n, and a donor with a strictly greater total_value has a strictly
\* smaller rank number.
C14_RanksArePermutation ==
    /\ {donor_stats[i].contribution_rank : i \in DOMAIN donor_stats} = DOMAIN donor_stats
    /\ \A i, j \in DOMAIN donor_stats :
          donor_stats[i].total_value > donor_stats[j].total_value =>
              donor_stats[i].contribution_rank < donor_stats[j].contribution_rank

\* the donor seen second has overtaken the donor seen first
C14_Witness ==
    /\ Len(donor_stats) = 2
    /\ donor_stats[1].total_value < donor_stats[2].total_value
    /\ donor_stats[2].contribution_rank = 1
    /\ donor_stats[1].contribution_rank = 2

\* C15: of two donors with equal total_value, the one whose last gift is
\* the earlier has the better rank.
C15_TiesByLastGiftTime ==
    \A i, j \in DOMAIN donor_stats :
        (/\ donor_stats[i].total_value = donor_stats[j].total_value
         /\ donor_stats[i].last_gift_time < donor_stats[j].last_gift_time) =>
            donor_stats[i].contribution_rank < donor_stats[j].contribution_rank

----------------------------------------------------------------------------
\* Claims about the Leaderboard

\* the identities the model's callers pass to the Leaderboard
BoardKeys == {BoardKey(d[2], d[1]) : d \in Donors}

\* the score of the key's entry, 0 without an entry
ScoreOf(board, key) ==
    IF BoardIndex(board, key) = 0 THEN 0 ELSE board[BoardIndex(board, key)].score

\* C16: once a mutating Leaderboard method has returned, loading the save
\* file gives the score tables, the game statistics and the history log
\* that are in memory.
C16_MemoryPersisted ==
    (boardOps + historyCalls >= 1) =>
        (lbFile.exists /\ LoadData(lbFile) = leaderboard)

\* no two entries of the board have the same score
DistinctScores(board) ==
    \A i, j \in DOMAIN board : i # j => board[i].score # board[j].score

\* the identities a rank is asked for
RankIds == (Platforms \cup {"unknown"}) \X Users

\* C17: when the scores within each board are distinct, saving the
\* leaderboard and loading it again gives, for every kind of board and
\* every limit, the same get_leaderboard result, and the same
\* get_user_rank for every identity.
C17_RoundTripKeepsOrder ==
    (\A k \in BoardKinds : DistinctScores(leaderboard.boards[k])) =>
        LET back == LoadData(SaveData(leaderboard))
        IN  \A kind \in AllKinds :
              /\ \A n \in 0..(MaxBoardOps + 1) :
                    GetLeaderboard(back, kind, n) = GetLeaderboard(leaderboard, kind, n)
              /\ \A d \in RankIds :
                    GetUserRank(back, kind, d[2], d[1]) =
                        GetUserRank(leaderboard, kind, d[2], d[1])

\* the state in memory was loaded from the file, and its contribution board
\* ranks the entry made second above the entry made first
C17_Witness ==
    /\ lbFile.exists
    /\ leaderboard = LoadData(lbFile)
    /\ Len(leaderboard.boards.contribution) = 2
    /\ leaderboard.boards.contribution[1].score < leaderboard.boards.contribution[2].score
    /\ GetLeaderboard(leaderboard, "contribution", 1)[1] =
           leaderboard.boards.contribution[2]
    /\ GetUserRank(leaderboard, "contribution",
                   leaderboard.boards.contribution[1].user_id,
                   leaderboard.boards.contribution[1].platform) = 2

\* the update_vote_participation calls logged for the key, and those of
\* them whose vote matched the winner
VotesCast(key) == Cardinality({i \in DOMAIN partLog : partLog[i].key = key})
VotesWon(key) == Cardinality({i \in DOMAIN partLog : partLog[i].key = key /\ partLog[i].won})

\* C18: for every identity the vote board's score is the number of votes
\* cast plus twice the number of winning votes, the lucky board's score is
\* the number of winning votes, and a lucky entry exists only after a
\* winning vote.
C18_ParticipationScores ==
    \A key \in BoardKeys :
        /\ ScoreOf(leaderboard.boards.vote, key) = VotesCast(key) + 2 * VotesWon(key)
        /\ ScoreOf(leaderboard.boards.lucky, key) = VotesWon(key)
        /\ BoardIndex(leaderboard.boards.lucky, key) # 0 => VotesWon(key) >= 1
        /\ BoardIndex(leaderboard.boards.vote, key) # 0 <=> VotesCast(key) >= 1

\* one identity has cast a winning and a losing vote
C18_Witness ==
    \E key \in BoardKeys :
        /\ VotesCast(key) = 2
        /\ VotesWon(key) = 1
        /\ ScoreOf(leaderboard.boards.vote, key) = 4
        /\ ScoreOf(leaderboard.boards.lucky, key) = 1

----------------------------------------------------------------------------
\* Claims about the LiveGame

\* C11: a voter is a (platform, user_id) pair: the ballot each pair last
\* had recorded in the session is still in the ballot set of that option,
\* whatever chat events other pairs sent since.
C11_BallotPerIdentity ==
    \A d \in Platforms \X Users :
        held[d] # 0 => (held[d] \in DOMAIN votes /\ d[2] \in votes[held[d]])

\* C19: once a session is resolved, every (platform, user_id) pair that had
\* a ballot recorded in it has a rank on the vote board.
C19_VotersRankedByIdentity ==
    (lastOp = "end_vote" /\ fired >= 1) =>
        \A d \in Platforms \X Users :
            held[d] # 0 => GetUserRank(leaderboard, "vote", d[2], d[1]) # 0

\* C20: the character is renamed only by a chat event of the (platform,
\* user_id) pair whose gift made the grant.
C20_RenameOnlyByGrantee ==
    lastRename # NoRenaming => lastRename.by = lastRename.grantee

\* a chat event of the granted (platform, user_id) pair whose text matches
\* the rename command grammar
IsGranteeCommand(msg) ==
    /\ <<msg.platform, msg.user_id>> = grantee
    /\ IsRenameCommand(msg.content)

\* C21: with a character in play and a rename grant pending, the first
\* chat event of the granted identity that matches the rename command
\* grammar clears the grant, whether or not a vote session is open; while
\* no grant is pending no chat event changes the character's name.
C21_GrantConsumedByFirstCommand ==
    [][\A msg \in LiveMessages :
          /\ (/\ pending_rename # NoRename
              /\ player_name # <<>>
              /\ IsGranteeCommand(msg)
              /\ OnDanmaku(msg))
                => pending_rename' = NoRename
          /\ (pending_rename = NoRename /\ OnDanmaku(msg))
                => player_name' = player_name]_vars

\* C34: for any sequence of end_vote calls and process_vote_result polls,
\* a session yields at most one story turn, and a voter's participation is
\* credited at most once per session.
C34_OneTurnPerSession ==
    /\ \A s \in 1..sessions :
          Cardinality({i \in DOMAIN turns : turns[i].session = s}) <= 1
    /\ \A u \in Users : VotesCast(BoardKey(u, "unknown")) <= sessions

\* C36: a rename grant stays with its donor until that donor consumes it:
\* while a grant is outstanding, no gift hands it to a different donor.
C36_GrantStaysWithDonor ==
    [][(pending_rename # NoRename /\ pending_rename' # NoRename)
          => grantee' = grantee]_vars

\* the place of the key in the contribution get_leaderboard, 0 when absent
TopPosition(key) ==
    LET top == GetLeaderboard(leaderboard, "contribution", Cardinality(Donors))
        hit == {p \in DOMAIN top : top[p].key = key}
    IN  IF hit = {} THEN 0 ELSE SetMin(hit)

\* the contribution_rank of the key's DonorStats, 0 when absent
RankOf(key) ==
    IF DonorIndex(donor_stats, key) = 0 THEN 0
    ELSE donor_stats[DonorIndex(donor_stats, key)].contribution_rank

----------------------------------------------------------------------------
\* Claims about the storing operations

\* C22: a write to the disk that fails is tolerated: the storing operation
\* does not raise to its caller, and the steps after the write still run,
\* so that every effect queued has had its effect callbacks called.
C22_WriteFailureTolerated ==
    /\ ~raised
    /\ effectCalls = enqCount

----------------------------------------------------------------------------
\* Further claims about the VoteManager

\* C27: while no session is open, before the first one and after one has
\* closed, get_vote_counts returns a tally that is empty or all zero and
\* get_remaining_time returns 0.
C27_QueriesIdleWhenClosed ==
    ~voting_active =>
        /\ \A k \in DOMAIN votes : VoteCounts(votes)[k] = 0
        /\ GetRemainingTime(voting_active, vote_start_time, now) = 0

\* C28: every session that is opened is eventually resolved: the callback
\* given to its start_vote is invoked, chat events and explicit end_vote
\* calls or not.
C28_EverySessionResolved ==
    \A s \in 1..MaxSessions :
        (voting_active /\ vote_callback = s) ~> (vote_callback = s /\ fired >= 1)

\* C32: a timer closes a session only when that session's own duration has
\* elapsed; a timer left over from an earlier, explicitly closed session
\* never closes a later session early.
C32_OnlyOwnTimerCloses ==
    [][\A t \in timers :
          (t.pc = "call" /\ timers' = timers \ {t} /\ voting_active /\ ~voting_active')
              => now >= vote_start_time + VoteDuration]_vars

\* C33: in every interleaving of process_danmaku with end_vote, the tally
\* passed to the callback equals the sizes of the ballot sets the callback
\* reads, and the winner is the winner of those sets.
C33_TallyMatchesBallotsRead ==
    closer.calls > 0 =>
        /\ closer.counts = VoteCounts(closer.read)
        /\ closer.winner = Winner(VoteCounts(closer.read))

----------------------------------------------------------------------------
\* Claims about the tier table and the effects on the player

\* C29: no two tiers of the table share a min_value, and every tier is the
\* one _determine_effect triggers for some total value: one of the values
\* around the thresholds, or the value of the gift processed last.
C29_EveryTierTriggers ==
    /\ \A i, j \in DOMAIN GIFT_EFFECTS :
          i # j => GIFT_EFFECTS[i].min_value # GIFT_EFFECTS[j].min_value
    /\ \A i \in DOMAIN GIFT_EFFECTS :
          \E value \in ProbeValues \cup {TotalValue(lastGift)} :
              DetermineEffect(value) = i

\* the effects of a list that have a key apply_effects_to_player knows
KnownOnly(effects) ==
    SelectSeq(effects,
              LAMBDA e : \E i \in DOMAIN GIFT_EFFECTS[e.effect].effects :
                            GIFT_EFFECTS[e.effect].effects[i].key \in KnownKeys)

\* C30: apply_effects_to_player ignores the keys it does not know: a call
\* changes the player and returns the descriptions exactly as a call with
\* the effects of the known keys alone would, so that effects of unknown
\* keys change nothing, add no description, and do not keep the effects
\* after them from being applied.
C30_UnknownKeysIgnored ==
    [][applyCalls' # applyCalls =>
          \E picks \in Picks(KnownOnly(lastEffects')) :
              LET r == ApplyEffectsToPlayer(player, KnownOnly(lastEffects'), picks)
              IN  /\ player' = r.player
                  /\ messages' = r.messages]_vars

\* the rename tier followed by the hp_boost tier: the second one has raised
\* max_hp and healed
C30_Witness ==
    /\ applyCalls = 1
    /\ Len(lastEffects) = 2
    /\ GIFT_EFFECTS[lastEffects[1].effect].id = "rename"
    /\ GIFT_EFFECTS[lastEffects[2].effect].id = "hp_boost"
    /\ player.max_hp = NewPlayer(0).max_hp + 50
    /\ Len(messages) = 2

\* the last effect of the list raises the player's key
LastRaises(effects, key) ==
    /\ effects # <<>>
    /\ EffectGet(effects[Len(effects)].effect, key) # 0

\* C31: when apply_effects_to_player has applied a tier whose payload
\* raises max_hp (max_mp), the player is fully healed: hp = max_hp
\* (mp = max_mp) afterwards, whatever it was before.
C31_FullHealOnMaxIncrease ==
    [][applyCalls' # applyCalls =>
          /\ LastRaises(lastEffects', "max_hp") => player'.hp = player'.max_hp
          /\ LastRaises(lastEffects', "max_mp") => player'.mp = player'.max_mp]_vars

----------------------------------------------------------------------------
\* Claims about the DouyinDanmakuListener

\* C23: a malformed payload is dropped without ending the listener, and no
\* valid payload is lost for it: while the listener runs, every chat or
\* gift payload the server has sent either still waits on the connection
\* or has been emitted to the callbacks.
C23_ValidPayloadsDelivered ==
    running =>
        /\ worker # "done"
        /\ \A ev \in DOMAIN sentLog :
              IsEvent(sentLog[ev]) => (ev \in Range(wire) \/ ev \in Range(emitted))


\* C24: a running listener whose connection attempts keep failing never
\* gives up: it has called connect at least as often as attempts have
\* failed in a row, every attempt after a failure follows a backoff wait
\* of its own, and from each backoff wait another attempt follows unless
\* the listener is stopped.
C24_RetriesForever ==
    /\ [](running => worker # "done")
    /\ [](attempts >= failures)
    /\ [](worker = "connect" => backoffs = failures)
    /\ ((running /\ worker = "backoff") ~> (worker = "connect" \/ ~running))

\* the third attempt in a row, after two failures and two backoff waits
C24_Witness ==
    /\ running
    /\ worker = "connect"
    /\ failures = 2
    /\ backoffs = 2
    /\ attempts = 3


\* C25: after stop(), once a loop test of the listener has read the
\* running flag as false no connection attempt is started and no event is
\* emitted any more, and the listener's thread eventually ends.
C25_StopObserved ==
    /\ [][observed => /\ ~(worker' = "connect" /\ worker # "connect")
                      /\ attempts' = attempts
                      /\ emitted' = emitted]_vars
    /\ ((~running /\ worker # "none") ~> (worker = "done"))

\* stop() came while the connection was open; the inner loop test read the
\* flag, and the thread has ended
C25_Witness ==
    /\ ~running
    /\ stopping
    /\ observed
    /\ worker = "done"
    /\ attempts >= 1

\* the invocations made for the event of a payload
CallsOf(ev) == SelectSeq(delivered, LAMBDA call : call.ev = ev)

\* C26: an event is delivered once to every callback registered for its
\* type, in registration order, whether or not one of them raises, and the
\* listener goes on receiving.
C26_FanOutInOrder ==
    /\ [][(/\ worker = "recv"
           /\ wire # <<>>
           /\ IsEvent(sentLog[Head(wire)])
           /\ worker' \notin {"recv", "done"})
             => LET ev == Head(wire)
                    cbs == IF sentLog[ev] = "danmaku" THEN danmaku_callbacks
                                                      ELSE gift_callbacks
                IN  /\ delivered' = delivered \o
                                      [i \in 1..Len(cbs) |-> [cb |-> cbs[i], ev |-> ev]]
                    /\ worker' = "inner"
                    /\ wire' = Tail(wire)]_vars
    /\ [](\A i, j \in DOMAIN delivered : i # j => delivered[i] # delivered[j])

\* the callback that raises was registered first, and the one registered
\* after it has received the event too
C26_Witness ==
    \E ev \in DOMAIN sentLog :
        CallsOf(ev) = << [cb |-> "c2", ev |-> ev], [cb |-> "c1", ev |-> ev] >>

\* C37: between two consecutive connect attempts there is a backoff wait,
\* also when the connection before was open and then dropped by an error
\* of the receive or of the parse.
C37_BackoffBetweenAttempts ==
    [][(worker = "outer" /\ worker' = "connect" /\ attempts >= 1)
          => backoffs >= 1]_vars

=============================================================================
